---- MODULE Spec2Model ----
(***************************************************************************)
(* Model of 03_challenge_maze3d/lessons/06_maze_game_camera.c: the main    *)
(* loop's camera update and collision resolution, the circle-vs-rectangle  *)
(* test, the cubicmap mesh generator, the input callbacks and buffers, and *)
(* the frame pacing of SyncFrame.                                          *)
(*                                                                         *)
(* Numbers.  The C code computes in float.  The model computes exactly, in *)
(* fixed point: a world length is an integer number of 1/Scale world       *)
(* units, and the yaw is a whole number of quarter turns, so that sinf and *)
(* cosf of it are -1, 0 or 1 and one key moves the camera by exactly       *)
(* Scale/PLAYER_MOVEMENT_SENSITIVITY units.  A conversion to int is        *)
(* modelled by the truncation C performs.                                  *)
(***************************************************************************)
EXTENDS Integers, Sequences, FiniteSets, TLC

VARIABLES
    imMap,          \* Image imMap: [width, height] (main, line 275)
    mapPixels,      \* Color *mapPixels: pixel index -> [r, g, b] (main, line 280)
    camera,         \* Camera camera: [position, target], each [x, y, z] (main, lines 260-262)
    cameraAngle,    \* static Vector2 cameraAngle: [x |-> yaw in quarter turns,
                    \*   y |-> pitch in microradians] (line 185)
    swingCounter,   \* static int swingCounter of UpdateCamera (line 1181)
    playerPos,      \* Vector2 playerPos of the last update: the tentative (x, z) (line 304)
    resolved,       \* outcome of the last collision scan: "none", "kept" or "rollback"
    readIdx,        \* the pixel indices the last collision scan read (line 330)
    pc,             \* position in main: "update" or "draw" in the loop ("top", "poll",
                    \*   "glfwPollEvents" and "sync" too where the loop is followed step
                    \*   by step), a step of the initialization before it, a position in
                    \*   SyncFrame, "camera" in a bare call, or "exited"
    moveKeys,       \* bool direction[6] of the last UpdateCamera call (line 1193)
    mousePositionDelta, \* mousePositionDelta.y of the last UpdateCamera call (line 1201)
    matModelview,   \* static Matrix matModelview, as the [position, target] MatrixLookAt
                    \*   was given (lines 171, 268 and 301)
    rendered,       \* the matModelview the last DrawModel call used (line 777), or NoView
    col,            \* one call of CheckCollisionCircleRec: [center, radius, rec, called, returned]
    gen,            \* GenMeshCubicmap's loop position: [k |-> cell index, face |-> 1 .. 7]
    mapVertices,    \* Vector3 *mapVertices (line 824)
    mapNormals,     \* Vector3 *mapNormals (line 826)
    mapTexcoords,   \* Vector2 *mapTexcoords (line 825)
    counters,       \* [vCounter, tcCounter, nCounter] (lines 816-818)
    faces,          \* the faces emitted so far: [x, z, face], in emission order
    mesh,           \* the Mesh returned, or NoMesh before the return
    window,         \* GLFWwindow *window: "NULL" or "WINDOW" (line 165)
    traceLog,       \* the levels of the messages TraceLog has written
    mapFile,        \* the file LoadImage was called on for the map (line 275), or NoFile
    printed,        \* the iterations whose update wrote the line of printf (line 310)
    previousKeyState,   \* static char previousKeyState[512] (line 179), at the entries
                        \*   the events of the model can reach
    currentKeyState,    \* static char currentKeyState[512] (line 180), likewise
    previousMouseState, \* static char previousMouseState[3] (line 181)
    currentMouseState,  \* static char currentMouseState[3] (line 182)
    shouldClose,    \* the window's close flag, which glfwWindowShouldClose returns (line 294)
    keysDown,       \* the keys and buttons the windowing library holds as pressed
    wild,           \* the stores made outside an array's bounds: [array, index]
    pressPolls,     \* the iterations whose poll delivered a press of the space key that
                    \*   no release followed in the same poll
    frame,          \* the number of the main loop's iteration, from 1
    polls,          \* the number of calls of PollInputEvents so far
    delivered,      \* the number of events the current call of glfwPollEvents has delivered
    clock,          \* what glfwGetTime() returns, in ticks
    currentTime,    \* static double currentTime (line 173)
    previousTime,   \* static double previousTime (line 173)
    frameTime,      \* static double frameTime (line 174)
    targetTime,     \* static double targetTime (line 175)
    targetFPS,      \* the argument of the last SetTargetFPS call (line 497), or NoRate
    waitLoop        \* the locals of SyncFrame's wait: [prevTime, nextTime] (lines 514-515)

mapVars == <<imMap, mapPixels>>
gameVars == <<camera, cameraAngle, swingCounter, playerPos, resolved, readIdx, pc,
              moveKeys, mousePositionDelta, matModelview, rendered, printed>>
colVars == <<col>>
meshVars == <<gen, mapVertices, mapNormals, mapTexcoords, counters, faces, mesh>>
sysVars == <<window, traceLog, mapFile>>
inputVars == <<previousKeyState, currentKeyState, previousMouseState, currentMouseState,
               shouldClose, keysDown, wild, pressPolls, frame, polls, delivered>>
timeVars == <<clock, currentTime, previousTime, frameTime, targetTime, targetFPS, waitLoop>>
vars == <<mapVars, gameVars, colVars, meshVars, sysVars, inputVars, timeVars>>

----------------------------------------------------------------------------
(* Bounds of the model *)

\* Largest value the swing counter is let to reach (it counts the frames moved).
MaxSwing == 9
\* Largest yaw, in quarter turns, the mouse is let to turn the camera to.
MaxYaw == 1

----------------------------------------------------------------------------
(* Program constants *)

PLAYER_MOVEMENT_SENSITIVITY == 20
CAMERA_FIRST_PERSON_STEP_TRIGONOMETRIC_DIVIDER == 5
CAMERA_FIRST_PERSON_STEP_DIVIDER == 30
CAMERA_FIRST_PERSON_FOCUS_DISTANCE == 25
CAMERA_FIRST_PERSON_MIN_CLAMP == 85
CAMERA_FIRST_PERSON_MAX_CLAMP == -85

\* CAMERA_MOUSE_MOVE_SENSITIVITY, 0.003f radians per pixel, in microradians.
CAMERA_MOUSE_MOVE_SENSITIVITY == 3000

\* Fixed-point units per world unit; one key moves the camera by Step units.
Scale == 5 * PLAYER_MOVEMENT_SENSITIVITY
Step == Scale \div PLAYER_MOVEMENT_SENSITIVITY

\* float playerRadius = 0.1f
playerRadius == Scale \div 10
\* static float playerEyesPosition = 0.6f
playerEyesPosition == (6 * Scale) \div 10

\* CameraMove
MOVE_FRONT == "MOVE_FRONT"
MOVE_BACK == "MOVE_BACK"
MOVE_RIGHT == "MOVE_RIGHT"
MOVE_LEFT == "MOVE_LEFT"
MOVE_UP == "MOVE_UP"
MOVE_DOWN == "MOVE_DOWN"
CameraMove == {MOVE_FRONT, MOVE_BACK, MOVE_RIGHT, MOVE_LEFT, MOVE_UP, MOVE_DOWN}

\* Pixel colours: pure white, pure black, and three that are neither.
WHITE == [r |-> 255, g |-> 255, b |-> 255]
BLACK == [r |-> 0, g |-> 0, b |-> 0]
RED == [r |-> 255, g |-> 0, b |-> 0]
GREY == [r |-> 128, g |-> 128, b |-> 128]
BLUE == [r |-> 0, g |-> 0, b |-> 255]

----------------------------------------------------------------------------
(* Arithmetic helpers *)

Abs(a) == IF a < 0 THEN -a ELSE a

\* C's integer division, truncating toward zero.
CDiv(a, b) == IF a >= 0 THEN a \div b ELSE -((-a) \div b)

\* C's conversion of a float (in fixed point) to int: truncation toward zero.
FloatToInt(v) == CDiv(v, Scale)

\* sinf and cosf of a yaw of q quarter turns.
SinQ(q) == CASE q % 4 = 0 -> 0 [] q % 4 = 1 -> 1 [] q % 4 = 2 -> 0 [] OTHER -> -1
CosQ(q) == CASE q % 4 = 0 -> 1 [] q % 4 = 1 -> 0 [] q % 4 = 2 -> -1 [] OTHER -> 0

\* deg*DEG2RAD for a whole number of degrees, in microradians (PiMicro is PI).
PiMicro == 3141593
DegToMicro(deg) == CDiv(deg * PiMicro, 180)

\* 1000 * sinf(a) for an angle of a microradians: the angle is brought into
\* [-PI/2, PI/2] by the sine's period and symmetry, then the Taylor series to the
\* 5th power is taken on whole milliradians.
SinMilli(a) ==
    LET r == a % (2 * PiMicro)
        q == IF r <= PiMicro \div 2 THEN r
             ELSE IF r <= PiMicro + PiMicro \div 2 THEN PiMicro - r
             ELSE r - 2 * PiMicro
        m == Abs(CDiv(q, 1000))
        m2 == (m * m) \div 1000
        t3 == (m2 * m) \div 6000
        t5 == (((m2 * m2) \div 1000) * m) \div 120000
    IN  IF q < 0 THEN -(m - t3 + t5) ELSE m - t3 + t5

\* Scale * sinf(n/d) for 0 <= n/d <= 2, by the Taylor series to the 5th power.
SinF(n, d) ==
    (Scale * (120*n*d*d*d*d - 20*n*n*n*d*d + n*n*n*n*n)) \div (120*d*d*d*d*d)

----------------------------------------------------------------------------
(* CheckCollisionCircleRec, lines 1249-1267 *)

CheckCollisionCircleRec(center, radius, rec) ==
    LET recCenterX == rec.x + CDiv(rec.width, 2)
        recCenterY == rec.y + CDiv(rec.height, 2)
        dx == Abs(center.x - recCenterX * Scale)
        dy == Abs(center.y - recCenterY * Scale)
        halfW == rec.width * (Scale \div 2)
        halfH == rec.height * (Scale \div 2)
    IN  IF dx > halfW + radius THEN FALSE
        ELSE IF dy > halfH + radius THEN FALSE
        ELSE IF dx <= halfW THEN TRUE
        ELSE IF dy <= halfH THEN TRUE
        ELSE (dx - halfW) * (dx - halfW) + (dy - halfH) * (dy - halfH)
                 <= radius * radius

----------------------------------------------------------------------------
(* The map *)

\* The pixel indices of a width x height image, row-major.
PixelIndices(im) == 0 .. (im.width * im.height - 1)

\* The cells (x, y) of the grid.
GridCells(im) == (0 .. (im.width - 1)) \X (0 .. (im.height - 1))

\* GenMeshCubicmap's test for a full cube, lines 866-868: pure white.
IsWall(c) == c.r = 255 /\ c.g = 255 /\ c.b = 255

\* A variant of IsOpen that looks at the red channel alone.
IsOpenRedOnly(c) == c.r = 0

\* GenMeshCubicmap's test for floor and roof, lines 1052-1054: pure black.
IsOpen(c) == c.r = 0 /\ c.g = 0 /\ c.b = 0

\* A map: an image size and its pixels, all of colour base except those of others.
MapOf(w, h, base, others) ==
    [im |-> [width |-> w, height |-> h],
     px |-> [i \in 0 .. (w * h - 1) |->
                IF i \in DOMAIN others THEN others[i] ELSE base]]

\* The maps the main loop is explored on (the first pixel is the top left one):
\*   a 3x3 ring of walls around the open cell (1, 1) the camera starts in;
\*   a 2x2 map with a red and a grey cell beside the start;
\*   a 2x3 map (higher than wide) with one wall, at (1, 2);
\*   a 2x1 map (wider than high), all open.
GameMaps ==
    { MapOf(3, 3, WHITE, (4 :> BLACK)),
      MapOf(2, 2, BLACK, (1 :> GREY) @@ (2 :> RED)),
      MapOf(2, 3, BLACK, (5 :> WHITE)),
      MapOf(2, 1, BLACK, <<>>) }

----------------------------------------------------------------------------
(* UpdateCamera, lines 1161-1244 *)

\* The inputs of one frame: the six movement keys as IsKeyDown returns them (0 or
\* 1), the mouse's horizontal movement as the quarter turns it adds to the yaw,
\* and its vertical movement in pixels.
KeySets ==
    { {}, {MOVE_FRONT}, {MOVE_BACK}, {MOVE_RIGHT}, {MOVE_LEFT}, {MOVE_UP}, {MOVE_DOWN},
      {MOVE_FRONT, MOVE_BACK} }
Directions == { [k \in CameraMove |-> IF k \in held THEN 1 ELSE 0] : held \in KeySets }
Turns == {-1, 0, 1}
Looks == {0}

\* A variant of ClampPitch that tests the upper limit only.
ClampPitchAbove(a) ==
    IF a > DegToMicro(CAMERA_FIRST_PERSON_MIN_CLAMP)
    THEN DegToMicro(CAMERA_FIRST_PERSON_MIN_CLAMP)
    ELSE a

\* Lines 1228-1229: the angle clamp.
ClampPitch(a) ==
    IF a > DegToMicro(CAMERA_FIRST_PERSON_MIN_CLAMP)
    THEN DegToMicro(CAMERA_FIRST_PERSON_MIN_CLAMP)
    ELSE IF a < DegToMicro(CAMERA_FIRST_PERSON_MAX_CLAMP)
    THEN DegToMicro(CAMERA_FIRST_PERSON_MAX_CLAMP)
    ELSE a

\* A variant of NextSwing that counts a frame only when the camera moved in it.
NextSwingIfMoved(swing, direction) ==
    IF direction[MOVE_FRONT] /= direction[MOVE_BACK] \/ direction[MOVE_LEFT] /= direction[MOVE_RIGHT]
    THEN swing + 1
    ELSE swing

\* Lines 1219-1221 and 1236: isMoving, and the swing counter after the call.
NextSwing(swing, direction) ==
    IF \E i \in CameraMove : direction[i] = 1 THEN swing + 1 ELSE swing

\* Lines 1232-1234: the target, from the position as it is at those lines (x and z
\* moved, y moved by lines 1210-1212 and not yet set by line 1240) and the angles.
LookAtTarget(pos, yMoved, angle) ==
    [x |-> pos.x - SinQ(angle.x) * CAMERA_FIRST_PERSON_FOCUS_DISTANCE * Scale,
     y |-> yMoved + CDiv(SinMilli(angle.y) * CAMERA_FIRST_PERSON_FOCUS_DISTANCE * Scale, 1000),
     z |-> pos.z - CosQ(angle.x) * CAMERA_FIRST_PERSON_FOCUS_DISTANCE * Scale]

\* A variant of UpdateCamera that moves along the yaw the frame's mouse movement
\* has already turned.
UpdateCameraTurnsFirst(cam, angle, swing, direction, turn, dy) ==
    LET s == SinQ(angle.x + turn)
        c == CosQ(angle.x + turn)
        \* lines 1205-1208
        x == cam.position.x
             + (Scale * (s * direction[MOVE_BACK] - s * direction[MOVE_FRONT]
                         - c * direction[MOVE_LEFT] + c * direction[MOVE_RIGHT]))
               \div PLAYER_MOVEMENT_SENSITIVITY
        \* lines 1210-1212
        yMoved == cam.position.y
             + CDiv(CDiv(SinMilli(angle.y) * Scale, 1000)
                      * (direction[MOVE_FRONT] - direction[MOVE_BACK])
                    + Scale * (direction[MOVE_UP] - direction[MOVE_DOWN]),
                    PLAYER_MOVEMENT_SENSITIVITY)
        \* lines 1214-1217
        z == cam.position.z
             + (Scale * (c * direction[MOVE_BACK] - c * direction[MOVE_FRONT]
                         + s * direction[MOVE_LEFT] - s * direction[MOVE_RIGHT]))
               \div PLAYER_MOVEMENT_SENSITIVITY
        \* lines 1224-1229
        angle2 == [x |-> angle.x + turn,
                   y |-> ClampPitch(angle.y - dy * CAMERA_MOUSE_MOVE_SENSITIVITY)]
        swing2 == NextSwing(swing, direction)
        \* line 1240
        y == playerEyesPosition
             - SinF(swing2, CAMERA_FIRST_PERSON_STEP_TRIGONOMETRIC_DIVIDER)
               \div CAMERA_FIRST_PERSON_STEP_DIVIDER
        position == [x |-> x, y |-> y, z |-> z]
    IN  [camera |-> [position |-> position, target |-> LookAtTarget(position, yMoved, angle2)],
         cameraAngle |-> angle2,
         swingCounter |-> swing2]

\* UpdateCamera: the camera, the angles and the swing counter after a call with
\* the given keys, yaw turn and vertical mouse movement dy.  The up vector, a tilt
\* of at most 1/200, is left out.
UpdateCamera(cam, angle, swing, direction, turn, dy) ==
    LET s == SinQ(angle.x)
        c == CosQ(angle.x)
        \* lines 1205-1208
        x == cam.position.x
             + (Scale * (s * direction[MOVE_BACK] - s * direction[MOVE_FRONT]
                         - c * direction[MOVE_LEFT] + c * direction[MOVE_RIGHT]))
               \div PLAYER_MOVEMENT_SENSITIVITY
        \* lines 1210-1212
        yMoved == cam.position.y
             + CDiv(CDiv(SinMilli(angle.y) * Scale, 1000)
                      * (direction[MOVE_FRONT] - direction[MOVE_BACK])
                    + Scale * (direction[MOVE_UP] - direction[MOVE_DOWN]),
                    PLAYER_MOVEMENT_SENSITIVITY)
        \* lines 1214-1217
        z == cam.position.z
             + (Scale * (c * direction[MOVE_BACK] - c * direction[MOVE_FRONT]
                         + s * direction[MOVE_LEFT] - s * direction[MOVE_RIGHT]))
               \div PLAYER_MOVEMENT_SENSITIVITY
        \* lines 1224-1229
        angle2 == [x |-> angle.x + turn,
                   y |-> ClampPitch(angle.y - dy * CAMERA_MOUSE_MOVE_SENSITIVITY)]
        swing2 == NextSwing(swing, direction)
        \* line 1240
        y == playerEyesPosition
             - SinF(swing2, CAMERA_FIRST_PERSON_STEP_TRIGONOMETRIC_DIVIDER)
               \div CAMERA_FIRST_PERSON_STEP_DIVIDER
        position == [x |-> x, y |-> y, z |-> z]
    IN  [camera |-> [position |-> position, target |-> LookAtTarget(position, yMoved, angle2)],
         cameraAngle |-> angle2,
         swingCounter |-> swing2]

----------------------------------------------------------------------------
(* The collision step of the main loop, lines 304-339 *)

\* The rectangle of cell (x, y), line 332: four floats converted to the int fields
\* of Rectangle (mapPosition is the origin).
CellRec(x, y) ==
    [x |-> FloatToInt(Scale \div 2 + x * Scale),
     y |-> FloatToInt(Scale \div 2 + y * Scale),
     width |-> FloatToInt(Scale),
     height |-> FloatToInt(Scale)]

\* A variant of ScanCells whose loops stop one cell early.
ScanCellsShort(im) == (0 .. (im.width - 2)) \X (0 .. (im.width - 2))

\* The cells the two loops of lines 326-328 visit: both run to imMap.width.
ScanCells(im) == (0 .. (im.width - 1)) \X (0 .. (im.width - 1))

\* The pixel index read for cell c, line 330.
ScanIndex(im, c) == c[2] * im.width + c[1]

\* The red byte the scan reads at index i: the pixel's, or, past the end of the
\* pixel array, whatever the heap holds there (heapR).
ReadRed(im, px, i, heapR) == IF i \in PixelIndices(im) THEN px[i].r ELSE heapR

\* The values such a byte is given: both outcomes of the comparison with 255.
HeapBytes(im) ==
    IF \A c \in ScanCells(im) : ScanIndex(im, c) \in PixelIndices(im) THEN {0} ELSE {0, 255}

\* Lines 326-338: whether some visited cell is a collider the circle touches.
ScanHits(im, px, pos, heapR) ==
    \E c \in ScanCells(im) :
        /\ ReadRed(im, px, ScanIndex(im, c), heapR) = 255
        /\ CheckCollisionCircleRec(pos, playerRadius, CellRec(c[1], c[2]))

NoPos == [x |-> 0, y |-> 0]

\* No key read yet in the frame; nothing drawn yet in the frame.
NoKeys == [k \in CameraMove |-> 0]
NoView == [position |-> [x |-> 0, y |-> 0, z |-> 0], target |-> [x |-> 0, y |-> 0, z |-> 0],
           drawn |-> FALSE]

\* MatrixLookAt(position, target, up): the view transform, kept as the eye and the
\* point looked at that determine it.
MatrixLookAt(position, target) == [position |-> position, target |-> target]

\* DrawModel, line 777: the draw call takes matModelview as it is at the call.
DrawModel(view) == [position |-> view.position, target |-> view.target, drawn |-> TRUE]

\* The windowing library's codes: the actions of a key or button event, the keys
\* the program names, the code of a key the library has no name for, and the last
\* mouse button.
GLFW_RELEASE == 0
GLFW_PRESS == 1
GLFW_REPEAT == 2
GLFW_KEY_UNKNOWN == -1
GLFW_KEY_SPACE == 32
GLFW_KEY_ESCAPE == 256
GLFW_MOUSE_BUTTON_LAST == 7

\* Lines 179-182: the sizes of the key state arrays and of the mouse button state
\* arrays.
KeyStateSize == 512
MouseStateSize == 3

\* The entries of the key state arrays the model keeps: those of the keys whose
\* events it delivers, and the last.
TrackedKeys == {GLFW_KEY_SPACE, GLFW_KEY_ESCAPE, KeyStateSize - 1}

\* IsKeyPressed, lines 537-541.
IsKeyPressed(key) ==
    currentKeyState[key] /= previousKeyState[key] /\ currentKeyState[key] = 1

\* Lines 298-339: one iteration's update.  The bytes read past the end of the array
\* are one unknown value: the scan's only effect is the rollback, which more bytes
\* equal to 255 can only cause, so equal bytes produce every outcome.
UpdateFrame ==
    /\ pc = "update"
    /\ \E direction \in Directions, turn \in Turns, dy \in Looks, heapR \in HeapBytes(imMap) :
      \* line 300 (one call), line 304, lines 326-339
      \E u \in {UpdateCamera(camera, cameraAngle, swingCounter, direction, turn, dy)} :
      \E pos \in {[x |-> u.camera.position.x, y |-> u.camera.position.z]} :
      \E hit \in {ScanHits(imMap, mapPixels, pos, heapR)} :
        LET oldCamPos == camera.position
        IN  /\ u.swingCounter <= MaxSwing
            /\ u.cameraAngle.x \in 0 .. MaxYaw
            /\ camera' = IF hit THEN [u.camera EXCEPT !.position = oldCamPos]
                                ELSE u.camera
            /\ cameraAngle' = u.cameraAngle
            /\ swingCounter' = u.swingCounter
            /\ playerPos' = pos
            /\ resolved' = IF hit THEN "rollback" ELSE "kept"
            /\ readIdx' = { ScanIndex(imMap, c) : c \in ScanCells(imMap) }
            /\ moveKeys' = direction
            /\ mousePositionDelta' = dy
            /\ matModelview' = MatrixLookAt(u.camera.position, u.camera.target)
    \* line 310
    /\ printed' = IF IsKeyPressed(GLFW_KEY_SPACE) THEN printed \cup {frame} ELSE printed
    /\ rendered' = NoView
    /\ pc' = "draw"
    /\ UNCHANGED <<inputVars, timeVars, sysVars, mapVars, colVars, meshVars>>

\* Lines 343-351: draw, swap, poll, wait; the iteration's locals go out of scope.
DrawFrame ==
    /\ pc = "draw"
    /\ pc' = "update"
    /\ playerPos' = NoPos
    /\ resolved' = "none"
    /\ readIdx' = {}
    /\ moveKeys' = NoKeys
    /\ mousePositionDelta' = 0
    /\ rendered' = DrawModel(matModelview)
    /\ UNCHANGED <<inputVars, timeVars, printed, sysVars, mapVars, camera, cameraAngle, swingCounter, matModelview, colVars, meshVars>>

\* TraceLog's message types.
LOG_INFO == "INFO"
LOG_ERROR == "ERROR"
LOG_WARNING == "WARNING"

\* A file as LoadImage meets it: its extension, whether fopen opens it, whether
\* its content decodes.  NoFile: LoadImage not called yet.
NoFile == [ext |-> "", opens |-> FALSE, decodes |-> FALSE]
MapFile == [ext |-> ".png", opens |-> TRUE, decodes |-> TRUE]

\* main, lines 255-290, all successful: the window exists, the map file was loaded.
Running ==
    /\ window = "WINDOW"
    /\ traceLog = {LOG_INFO}
    /\ mapFile = MapFile

\* main, lines 260-268, and the statics of lines 173-185 and 1181: the camera starts
\* at Vector3One() looking at Vector3Zero(), no event has been delivered, no time
\* has been read.
Vector3One == [x |-> Scale, y |-> Scale, z |-> Scale]
Vector3Zero == [x |-> 0, y |-> 0, z |-> 0]
NoRate == 0
InputInit ==
    /\ previousKeyState = [k \in TrackedKeys |-> 0]
    /\ currentKeyState = [k \in TrackedKeys |-> 0]
    /\ previousMouseState = [b \in 0 .. (MouseStateSize - 1) |-> 0]
    /\ currentMouseState = [b \in 0 .. (MouseStateSize - 1) |-> 0]
    /\ shouldClose = FALSE
    /\ keysDown = {}
    /\ wild = {}
    /\ pressPolls = {}
    /\ frame = 1
    /\ polls = 0
    /\ delivered = 0
    /\ printed = {}
TimeInit ==
    /\ clock = 0
    /\ currentTime = 0
    /\ previousTime = 0
    /\ frameTime = 0
    /\ targetTime = 0
    /\ targetFPS = NoRate
    /\ waitLoop = [prevTime |-> 0, nextTime |-> 0]
CameraInit ==
    /\ InputInit
    /\ TimeInit
    /\ camera = [position |-> Vector3One, target |-> Vector3Zero]
    /\ cameraAngle = [x |-> 0, y |-> 0]
    /\ swingCounter = 0
    /\ moveKeys = NoKeys
    /\ mousePositionDelta = 0
    /\ matModelview = MatrixLookAt(Vector3One, Vector3Zero)
    /\ rendered = NoView
GameInit ==
    /\ CameraInit
    /\ Running
    /\ playerPos = NoPos
    /\ resolved = "none"
    /\ readIdx = {}
    /\ pc = "update"

\* No call of CheckCollisionCircleRec under way, no mesh generation under way.
NoCol == [center |-> NoPos, radius |-> 0,
          rec |-> [x |-> 0, y |-> 0, width |-> 0, height |-> 0],
          called |-> FALSE, returned |-> FALSE]
NoMesh == [vertexCount |-> -1, vertices |-> <<>>, texcoords |-> <<>>, normals |-> <<>>]
ColIdle == col = NoCol
MeshIdle ==
    /\ gen = [k |-> 0, face |-> 1]
    /\ mapVertices = <<>>
    /\ mapNormals = <<>>
    /\ mapTexcoords = <<>>
    /\ counters = [vCounter |-> 0, tcCounter |-> 0, nCounter |-> 0]
    /\ faces = <<>>
    /\ mesh = NoMesh

\* main, lines 275-290: the main loop starts on the loaded map.
Init ==
    /\ \E m \in GameMaps : imMap = m.im /\ mapPixels = m.px
    /\ GameInit
    /\ ColIdle
    /\ MeshIdle

Next == UpdateFrame \/ DrawFrame

Spec == Init /\ [][Next]_vars

----------------------------------------------------------------------------
(* The geometry the claims about the collision step are stated in *)

\* The footprint of cell (x, z): the unit square centred at world (x, z), as
\* GenMeshCubicmap places the cube (lines 856-863, cubeSize 1).
Footprint(x, z) ==
    [xmin |-> x * Scale - Scale \div 2, xmax |-> x * Scale + Scale \div 2,
     zmin |-> z * Scale - Scale \div 2, zmax |-> z * Scale + Scale \div 2]

Clamp(v, lo, hi) == IF v < lo THEN lo ELSE IF v > hi THEN hi ELSE v

\* The squared distance from the point center (x, y) to the closest point of the
\* axis-aligned rectangle fp.
DistSq(center, fp) ==
    LET ex == center.x - Clamp(center.x, fp.xmin, fp.xmax)
        ez == center.y - Clamp(center.y, fp.zmin, fp.zmax)
    IN  ex * ex + ez * ez

\* The circle overlaps or touches the rectangle.
CircleTouches(center, radius, fp) == DistSq(center, fp) <= radius * radius

\* The circle and the rectangle share area (touching alone is not counted, so that
\* what is refuted below does not rest on a tie).
CircleOverlaps(center, radius, fp) == DistSq(center, fp) < radius * radius

IsWallCell(c) == mapPixels[c[2] * imMap.width + c[1]] = WHITE
IsOpenCell(c) == mapPixels[c[2] * imMap.width + c[1]] = BLACK

\* Whether the player circle at horizontal position pos overlaps the footprint of
\* some WALL cell of the map.
WallOverlap(pos) ==
    \E c \in GridCells(imMap) :
        IsWallCell(c) /\ CircleOverlaps(pos, playerRadius, Footprint(c[1], c[2]))

Horizontal(p) == [x |-> p.x, y |-> p.z]
StartPos == [x |-> Scale, y |-> Scale]

\* C1: from a start that overlaps no WALL footprint, the camera position at the end
\* of every frame's collision step overlaps no WALL footprint.  (Violated: the scan
\* of lines 326-328 stops at row imMap.width, see C3.)
C1_NoWallOverlapAfterCollision ==
    (~WallOverlap(StartPos) /\ pc = "draw") => ~WallOverlap(Horizontal(camera.position))

\* C2: in a frame whose tentative position (playerPos) overlaps a WALL footprint,
\* the position after the collision step is the position before UpdateCamera, in
\* x, y and z.  (Violated for the same reason as C1.)
C2_RollbackRestoresPosition ==
    [][(pc = "update" /\ pc' = "draw" /\ WallOverlap(playerPos'))
          => camera'.position = camera.position]_vars

\* C3: the collision scan examines every cell of the W x H grid and reads no pixel
\* index outside 0 .. W*H-1.  (Violated whenever W # H.)
C3_ScanCoversExactlyTheGrid ==
    pc = "draw" =>
        /\ \A c \in GridCells(imMap) : (c[2] * imMap.width + c[1]) \in readIdx
        /\ readIdx \subseteq PixelIndices(imMap)

\* The cell whose footprint holds the horizontal position p.
CellOf(p) == <<(p.x + Scale \div 2) \div Scale, (p.y + Scale \div 2) \div Scale>>
InOpenCell(p) == CellOf(p) \in GridCells(imMap) /\ IsOpenCell(CellOf(p))

\* C6: a move from an open cell straight toward the centre of a WALL cell is rolled
\* back when the tentative position is within 0.5 + 0.1 of that centre along the
\* approach axis (stated here for distances below 0.6, leaving the tie out), and
\* the wall cell does not collide when it is farther than 0.6.  (Violated for a
\* wall cell in a row the scan does not reach, see C3.)
C6_StraightApproachRejected ==
    [][(pc = "update" /\ pc' = "draw") =>
        \A c \in GridCells(imMap) :
            LET old == Horizontal(camera.position)
                new == playerPos'
                cx == c[1] * Scale
                cz == c[2] * Scale
                alongZ == old.x = cx /\ new.x = cx /\ Abs(new.y - cz) < Abs(old.y - cz)
                alongX == old.y = cz /\ new.y = cz /\ Abs(new.x - cx) < Abs(old.x - cx)
                d == IF alongZ THEN Abs(new.y - cz) ELSE Abs(new.x - cx)
            IN  (IsWallCell(c) /\ InOpenCell(old) /\ (alongZ \/ alongX)) =>
                    /\ d < Scale \div 2 + playerRadius =>
                          (resolved' = "rollback" /\ camera'.position = camera.position)
                    /\ d > Scale \div 2 + playerRadius =>
                          ~CheckCollisionCircleRec(new, playerRadius, CellRec(c[1], c[2]))
      ]_vars

----------------------------------------------------------------------------
(* CheckCollisionCircleRec as a function of its arguments *)

\* Largest rectangle width and height explored.
MaxRecSize == 2

\* The arguments explored: rectangles at the origin of every width and height from 1
\* to MaxRecSize, the player's radius and three times it, and centres on the grid
\* of the camera's steps, up to half a unit around the rectangles.
ColRecs == [x : {0}, y : {0}, width : 1 .. MaxRecSize, height : 1 .. MaxRecSize]
ColRadii == {playerRadius, 3 * playerRadius}
ColCoords ==
    { Step * i : i \in -(Scale \div (2 * Step)) .. ((2 * MaxRecSize + 1) * Scale) \div (2 * Step) }
ColCenters == [x : ColCoords, y : ColCoords]

ColInit ==
    /\ col \in [center : ColCenters, radius : ColRadii, rec : ColRecs,
                 called : {FALSE}, returned : {FALSE}]
    /\ imMap = [width |-> 0, height |-> 0]
    /\ mapPixels = <<>>
    /\ GameInit
    /\ MeshIdle

\* The call and its return value.
CallCheckCollision ==
    /\ ~col.called
    /\ col' = [col EXCEPT !.called = TRUE,
                          !.returned = CheckCollisionCircleRec(col.center, col.radius, col.rec)]
    /\ UNCHANGED <<inputVars, timeVars, sysVars, mapVars, gameVars, meshVars>>

ColNext == CallCheckCollision

SpecCol == ColInit /\ [][ColNext]_vars

\* The rectangle rec as the area it names: from (rec.x, rec.y), rec.width wide and
\* rec.height high, so centred at (rec.x + rec.width/2, rec.y + rec.height/2).
RecArea(rec) ==
    [xmin |-> rec.x * Scale, xmax |-> (rec.x + rec.width) * Scale,
     zmin |-> rec.y * Scale, zmax |-> (rec.y + rec.height) * Scale]

\* C4: CheckCollisionCircleRec returns true exactly when the circle overlaps or
\* touches the rectangle centred at (rec.x + rec.width/2, rec.y + rec.height/2) with
\* half-extents width/2 and height/2, odd widths and heights included.  (Violated:
\* line 1251 computes the centre in int, so an odd width or height moves it by 1/2.)
C4_CollidesIffCircleTouchesRectangle ==
    col.called => (col.returned <=> CircleTouches(col.center, col.radius, RecArea(col.rec)))

\* C5: a circle centred exactly at the rectangle's centre collides, and a circle
\* aligned with the centre on y and more than half-width + radius away from it on
\* x, on either side, does not.  (Violated for odd sizes, see C4.)
C5_CentreCollidesFarDoesNot ==
    LET cx2 == (2 * col.rec.x + col.rec.width) * Scale
        cy2 == (2 * col.rec.y + col.rec.height) * Scale
    IN  col.called =>
          /\ (2 * col.center.x = cx2 /\ 2 * col.center.y = cy2) => col.returned
          /\ (2 * col.center.y = cy2
                /\ Abs(2 * col.center.x - cx2) > col.rec.width * Scale + 2 * col.radius)
                => ~col.returned

----------------------------------------------------------------------------
(* GenMeshCubicmap, one face at a time *)

\* Largest number of pixels of the images the generator is run on.
MaxPixels == 4

V3(x, y, z) == [x |-> x, y |-> y, z |-> z]
V2(x, y) == [x |-> x, y |-> y]

\* main, line 276: GenMeshCubicmap(imMap, 1.0f).
cubeSize == Scale

\* Line 814: the number of triangles the three scratch buffers are allocated for
\* (lines 824-826: maxTriangles*3 elements each).
maxTriangles(im) == im.width * im.height * 12

\* Lines 829-834: the six normals.
n1 == V3(1, 0, 0)
n2 == V3(-1, 0, 0)
n3 == V3(0, 1, 0)
n4 == V3(0, -1, 0)
n5 == V3(0, 0, 1)
n6 == V3(0, 0, -1)

\* Lines 844-849: the texture rectangles, in 1/Scale.
rightTexUV == [x |-> 0, y |-> 0, width |-> Scale \div 2, height |-> Scale \div 2]
leftTexUV == [x |-> Scale \div 2, y |-> 0, width |-> Scale \div 2, height |-> Scale \div 2]
frontTexUV == [x |-> 0, y |-> 0, width |-> Scale \div 2, height |-> Scale \div 2]
backTexUV == [x |-> Scale \div 2, y |-> 0, width |-> Scale \div 2, height |-> Scale \div 2]
topTexUV == [x |-> 0, y |-> Scale \div 2, width |-> Scale \div 2, height |-> Scale \div 2]
bottomTexUV == [x |-> Scale \div 2, y |-> Scale \div 2, width |-> Scale \div 2, height |-> Scale \div 2]

\* Lines 856-863: the eight vertices of the cube of cell (x, z); w*(x - 0.5f) is
\* cubeSize*(2x - 1)/2 and w*(x + 0.5f) is cubeSize*(2x + 1)/2.
CubeVertices(x, z) ==
    LET lx == (cubeSize * (2 * x - 1)) \div 2
        hx == (cubeSize * (2 * x + 1)) \div 2
        lz == (cubeSize * (2 * z - 1)) \div 2
        hz == (cubeSize * (2 * z + 1)) \div 2
    IN  [v1 |-> V3(lx, cubeSize, lz), v2 |-> V3(lx, cubeSize, hz),
         v3 |-> V3(hx, cubeSize, hz), v4 |-> V3(hx, cubeSize, lz),
         v5 |-> V3(hx, 0, lz), v6 |-> V3(lx, 0, lz),
         v7 |-> V3(lx, 0, hz), v8 |-> V3(hx, 0, hz)]

\* The blocks of GenMeshCubicmap that emit a face, in the order of the code: six of
\* the WALL branch, then two of the OPEN branch.
FaceOrder == <<"top", "bottom", "front", "back", "right", "left", "ceiling", "floor">>
SideFaces == {"front", "back", "right", "left"}

\* A variant of FaceVertices with the second triangle of the left face wound the
\* other way.
FaceVerticesFlipped(x, z, face) ==
    LET v == CubeVertices(x, z)
    IN  CASE face = "top" -> <<v.v1, v.v2, v.v3, v.v1, v.v3, v.v4>>
          [] face = "bottom" -> <<v.v6, v.v8, v.v7, v.v6, v.v5, v.v8>>
          [] face = "front" -> <<v.v2, v.v7, v.v3, v.v3, v.v7, v.v8>>
          [] face = "back" -> <<v.v1, v.v5, v.v6, v.v1, v.v4, v.v5>>
          [] face = "right" -> <<v.v3, v.v8, v.v4, v.v4, v.v8, v.v5>>
          [] face = "left" -> <<v.v1, v.v7, v.v2, v.v1, v.v7, v.v6>>
          [] face = "ceiling" -> <<v.v1, v.v3, v.v2, v.v1, v.v4, v.v3>>
          [] face = "floor" -> <<v.v6, v.v7, v.v8, v.v6, v.v8, v.v5>>

\* The six vertices each block writes (lines 874-879, 899-904, 930-935, 962-967,
\* 994-999, 1026-1031, 1057-1062, 1082-1087).
FaceVertices(x, z, face) ==
    LET v == CubeVertices(x, z)
    IN  CASE face = "top" -> <<v.v1, v.v2, v.v3, v.v1, v.v3, v.v4>>
          [] face = "bottom" -> <<v.v6, v.v8, v.v7, v.v6, v.v5, v.v8>>
          [] face = "front" -> <<v.v2, v.v7, v.v3, v.v3, v.v7, v.v8>>
          [] face = "back" -> <<v.v1, v.v5, v.v6, v.v1, v.v4, v.v5>>
          [] face = "right" -> <<v.v3, v.v8, v.v4, v.v4, v.v8, v.v5>>
          [] face = "left" -> <<v.v1, v.v7, v.v2, v.v1, v.v6, v.v7>>
          [] face = "ceiling" -> <<v.v1, v.v3, v.v2, v.v1, v.v4, v.v3>>
          [] face = "floor" -> <<v.v6, v.v7, v.v8, v.v6, v.v8, v.v5>>

\* A variant of FaceNormal that writes the up normal in every block.
FaceNormalUp(face) == n3

\* The normal each block writes six times (lines 882-887, 907-912, 938-943, 970-975,
\* 1002-1007, 1034-1039, 1065-1070, 1090-1095).
FaceNormal(face) ==
    CASE face = "top" -> n3
      [] face = "bottom" -> n4
      [] face = "front" -> n6
      [] face = "back" -> n5
      [] face = "right" -> n1
      [] face = "left" -> n2
      [] face = "ceiling" -> n4
      [] face = "floor" -> n3

\* The corner (r.x + a*r.width, r.y + b*r.height) of a texture rectangle.
UV(r, a, b) == V2(r.x + a * r.width, r.y + b * r.height)

\* The six texture coordinates each block writes (lines 890-895, 915-920, 946-951,
\* 978-983, 1010-1015, 1042-1047, 1073-1078, 1098-1103).
FaceTexcoords(face) ==
    CASE face = "top" ->
           <<UV(topTexUV, 0, 0), UV(topTexUV, 0, 1), UV(topTexUV, 1, 1),
             UV(topTexUV, 0, 0), UV(topTexUV, 1, 1), UV(topTexUV, 1, 0)>>
      [] face = "bottom" ->
           <<UV(bottomTexUV, 1, 0), UV(bottomTexUV, 0, 1), UV(bottomTexUV, 1, 1),
             UV(bottomTexUV, 1, 0), UV(bottomTexUV, 0, 0), UV(bottomTexUV, 0, 1)>>
      [] face = "front" ->
           <<UV(frontTexUV, 0, 0), UV(frontTexUV, 0, 1), UV(frontTexUV, 1, 0),
             UV(frontTexUV, 1, 0), UV(frontTexUV, 0, 1), UV(frontTexUV, 1, 1)>>
      [] face = "back" ->
           <<UV(backTexUV, 1, 0), UV(backTexUV, 0, 1), UV(backTexUV, 1, 1),
             UV(backTexUV, 1, 0), UV(backTexUV, 0, 0), UV(backTexUV, 0, 1)>>
      [] face = "right" ->
           <<UV(rightTexUV, 0, 0), UV(rightTexUV, 0, 1), UV(rightTexUV, 1, 0),
             UV(rightTexUV, 1, 0), UV(rightTexUV, 0, 1), UV(rightTexUV, 1, 1)>>
      [] face = "left" ->
           <<UV(leftTexUV, 0, 0), UV(leftTexUV, 1, 1), UV(leftTexUV, 1, 0),
             UV(leftTexUV, 0, 0), UV(leftTexUV, 0, 1), UV(leftTexUV, 1, 1)>>
      [] face = "ceiling" ->
           <<UV(topTexUV, 0, 0), UV(topTexUV, 1, 1), UV(topTexUV, 0, 1),
             UV(topTexUV, 0, 0), UV(topTexUV, 1, 0), UV(topTexUV, 1, 1)>>
      [] face = "floor" ->
           <<UV(bottomTexUV, 1, 0), UV(bottomTexUV, 1, 1), UV(bottomTexUV, 0, 1),
             UV(bottomTexUV, 1, 0), UV(bottomTexUV, 0, 1), UV(bottomTexUV, 0, 0)>>

\* A variant of SideVisible without the tests for the edge of the map.
SideVisibleNoEdge(im, px, x, z, face) ==
    CASE face = "front" -> (z < im.height - 1) /\ IsOpen(px[(z + 1) * im.width + x])
      [] face = "back" -> (z > 0) /\ IsOpen(px[(z - 1) * im.width + x])
      [] face = "right" -> (x < im.width - 1) /\ IsOpen(px[z * im.width + (x + 1)])
      [] face = "left" -> (x > 0) /\ IsOpen(px[z * im.width + (x - 1)])

\* A variant of SideVisible that lets every side block run, whatever the neighbour.
SideVisibleAlways(im, px, x, z, face) == TRUE

\* The conditions of lines 923-926, 955-958, 987-990 and 1019-1022: the neighbour on
\* that side is inside the image and pure black, or the cell is on that edge.
SideVisible(im, px, x, z, face) ==
    CASE face = "front" ->
           \/ (z < im.height - 1) /\ IsOpen(px[(z + 1) * im.width + x])
           \/ z = im.height - 1
      [] face = "back" ->
           \/ (z > 0) /\ IsOpen(px[(z - 1) * im.width + x])
           \/ z = 0
      [] face = "right" ->
           \/ (x < im.width - 1) /\ IsOpen(px[z * im.width + (x + 1)])
           \/ x = im.width - 1
      [] face = "left" ->
           \/ (x > 0) /\ IsOpen(px[z * im.width + (x - 1)])
           \/ x = 0

\* A variant of Emits in which the OPEN branch emits nothing.
EmitsWallOnly(im, px, x, z, face) ==
    /\ IsWall(px[z * im.width + x])
    /\ face \in {"top", "bottom"} \/ (face \in SideFaces /\ SideVisible(im, px, x, z, face))

\* Whether the pass over cell (x, z) executes the block of the given face: the WALL
\* branch (line 866) runs the top and bottom blocks and the side blocks whose
\* condition holds, the OPEN branch (line 1052) the ceiling and floor blocks, and a
\* pixel of any other colour runs none.
Emits(im, px, x, z, face) ==
    LET c == px[z * im.width + x]
    IN  IF IsWall(c)
        THEN face \in {"top", "bottom"} \/ (face \in SideFaces /\ SideVisible(im, px, x, z, face))
        ELSE IF IsOpen(c)
        THEN face \in {"ceiling", "floor"}
        ELSE FALSE

\* buf[at] = six[1]; ...; buf[at + 5] = six[6].
Write6(buf, at, six) ==
    [i \in (DOMAIN buf) \cup (at .. (at + 5)) |->
        IF i \in at .. (at + 5) THEN six[i - at + 1] ELSE buf[i]]

\* A variant of NextCounter that advances a counter by five.
NextCounterFive(c) == c + 5

\* vCounter += 6, nCounter += 6, tcCounter += 6.
NextCounter(c) == c + 6

\* The loops of lines 851 and 853 visit the cells by rows: cell k is column k % width
\* of row k / width.
GenX == gen.k % imMap.width
GenZ == gen.k \div imMap.width
NextGen == IF gen.face = Len(FaceOrder) THEN [k |-> gen.k + 1, face |-> 1]
           ELSE [gen EXCEPT !.face = gen.face + 1]

\* One block of the loop body whose condition holds.
EmitFace ==
    /\ mesh = NoMesh
    /\ gen.k < imMap.width * imMap.height
    /\ Emits(imMap, mapPixels, GenX, GenZ, FaceOrder[gen.face])
    /\ LET face == FaceOrder[gen.face]
       IN  /\ mapVertices' = Write6(mapVertices, counters.vCounter, FaceVertices(GenX, GenZ, face))
           /\ mapNormals' = Write6(mapNormals, counters.nCounter, [i \in 1 .. 6 |-> FaceNormal(face)])
           /\ mapTexcoords' = Write6(mapTexcoords, counters.tcCounter, FaceTexcoords(face))
           /\ faces' = Append(faces, [x |-> GenX, z |-> GenZ, face |-> face])
    /\ counters' = [vCounter |-> NextCounter(counters.vCounter),
                    tcCounter |-> NextCounter(counters.tcCounter),
                    nCounter |-> NextCounter(counters.nCounter)]
    /\ gen' = NextGen
    /\ UNCHANGED <<inputVars, timeVars, sysVars, mapVars, gameVars, colVars, mesh>>

\* One block of the loop body whose condition does not hold.
SkipFace ==
    /\ mesh = NoMesh
    /\ gen.k < imMap.width * imMap.height
    /\ ~Emits(imMap, mapPixels, GenX, GenZ, FaceOrder[gen.face])
    /\ gen' = NextGen
    /\ UNCHANGED <<inputVars, timeVars, sysVars, mapVars, gameVars, colVars, mapVertices, mapNormals, mapTexcoords,
                   counters, faces, mesh>>

\* What an element of a malloc'ed buffer holds before it is written.
HeapFloats == {0, Scale}

\* buf[i], or what the heap held there.
ReadBuf(buf, i, heap) == IF i \in DOMAIN buf THEN buf[i] ELSE heap

\* A variant of Flatten3 that copies one element more than it was asked.
Flatten3Padded(buf, n, heap) ==
    [j \in 1 .. (3 * (n + 1)) |->
        LET v == ReadBuf(buf, (j - 1) \div 3, V3(heap, heap, heap))
        IN  CASE (j - 1) % 3 = 0 -> v.x [] (j - 1) % 3 = 1 -> v.y [] OTHER -> v.z]

\* Lines 1119-1125 and 1130-1136: n vectors copied out as 3n floats.
Flatten3(buf, n, heap) ==
    [j \in 1 .. (3 * n) |->
        LET v == ReadBuf(buf, (j - 1) \div 3, V3(heap, heap, heap))
        IN  CASE (j - 1) % 3 = 0 -> v.x [] (j - 1) % 3 = 1 -> v.y [] OTHER -> v.z]

\* Lines 1141-1146: n vectors copied out as 2n floats.
Flatten2(buf, n, heap) ==
    [j \in 1 .. (2 * n) |->
        LET v == ReadBuf(buf, (j - 1) \div 2, V2(heap, heap))
        IN  IF (j - 1) % 2 = 0 THEN v.x ELSE v.y]

\* Lines 1109-1146: after the loops, the counters and the buffers become the mesh.
ReturnMesh ==
    /\ mesh = NoMesh
    /\ gen.k = imMap.width * imMap.height
    /\ \E heap \in HeapFloats :
         mesh' = [vertexCount |-> counters.vCounter,
                  vertices |-> Flatten3(mapVertices, counters.vCounter, heap),
                  normals |-> Flatten3(mapNormals, counters.nCounter, heap),
                  texcoords |-> Flatten2(mapTexcoords, counters.tcCounter, heap)]
    /\ UNCHANGED <<inputVars, timeVars, sysVars, mapVars, gameVars, colVars, gen, mapVertices, mapNormals, mapTexcoords,
                   counters, faces>>

\* The colours of the images: the two the generator tests for, and two that pass
\* one channel of each test.
Palette == {WHITE, BLACK, RED, BLUE}

\* Every image of at most MaxPixels pixels over the palette (the empty ones too),
\* and the maps of the game.
MeshSizes == { s \in (0 .. MaxPixels) \X (0 .. MaxPixels) : s[1] * s[2] <= MaxPixels }
MeshMaps ==
    GameMaps \cup
    UNION { { [im |-> [width |-> s[1], height |-> s[2]], px |-> p] :
                p \in [0 .. (s[1] * s[2] - 1) -> Palette] } : s \in MeshSizes }

MeshInit ==
    /\ \E m \in MeshMaps : imMap = m.im /\ mapPixels = m.px
    /\ GameInit
    /\ ColIdle
    /\ MeshIdle

MeshNext == EmitFace \/ SkipFace \/ ReturnMesh

SpecMesh == MeshInit /\ [][MeshNext]_vars

----------------------------------------------------------------------------
(* The mesh, read back as faces *)

Returned == mesh /= NoMesh

\* Vertex i (from 0) of the returned mesh and its normal.
MeshVertex(i) == V3(mesh.vertices[3 * i + 1], mesh.vertices[3 * i + 2], mesh.vertices[3 * i + 3])
MeshNormal(i) == V3(mesh.normals[3 * i + 1], mesh.normals[3 * i + 2], mesh.normals[3 * i + 3])

\* The faces of the returned mesh are its runs of six vertices; face i (from 1) is
\* the one the i-th emission wrote, by cell By(i).
MeshFaces == 1 .. Len(faces)
Corner(i, j) == MeshVertex(6 * (i - 1) + j - 1)
VertexSet(i) == { Corner(i, j) : j \in 1 .. 6 }
NormalSet(i) == { MeshNormal(6 * (i - 1) + j - 1) : j \in 1 .. 6 }
By(i) == <<faces[i].x, faces[i].z>>
FacesBy(c) == { i \in MeshFaces : By(i) = c }

\* The y component of the geometric normal of the triangle a, b, c.
WindingY(a, b, c) == (b.z - a.z) * (c.x - a.x) - (b.x - a.x) * (c.z - a.z)

\* Face i is two triangles that together have exactly the given four corners.
Covers(i, corners) ==
    /\ VertexSet(i) = corners
    /\ Cardinality({Corner(i, 1), Corner(i, 2), Corner(i, 3)}) = 3
    /\ Cardinality({Corner(i, 4), Corner(i, 5), Corner(i, 6)}) = 3

Dirs == {<<1, 0>>, <<-1, 0>>, <<0, 1>>, <<0, -1>>}
Neighbour(c, d) == <<c[1] + d[1], c[2] + d[2]>>

\* The four corners of the boundary of cell c toward d: the side of its footprint
\* on that side, from height 0 to cubeSize.
BoundaryCorners(c, d) ==
    LET fp == Footprint(c[1], c[2])
        xs == IF d[1] = 1 THEN {fp.xmax} ELSE IF d[1] = -1 THEN {fp.xmin} ELSE {fp.xmin, fp.xmax}
        zs == IF d[2] = 1 THEN {fp.zmax} ELSE IF d[2] = -1 THEN {fp.zmin} ELSE {fp.zmin, fp.zmax}
    IN  { V3(x, y, z) : x \in xs, y \in {0, cubeSize}, z \in zs }

\* The four corners of the footprint of cell c at height y.
LevelCorners(c, y) ==
    LET fp == Footprint(c[1], c[2])
    IN  { V3(x, y, z) : x \in {fp.xmin, fp.xmax}, z \in {fp.zmin, fp.zmax} }

\* C7: in the returned mesh, no face from any cell lies on the boundary shared by
\* two adjacent WALL cells.
C7_NoFaceBetweenAdjacentWalls ==
    Returned =>
        \A c \in GridCells(imMap), d \in Dirs :
            (IsWallCell(c) /\ Neighbour(c, d) \in GridCells(imMap) /\ IsWallCell(Neighbour(c, d)))
                => \A i \in MeshFaces : ~(VertexSet(i) \subseteq BoundaryCorners(c, d))

\* A map with WALL cells adjacent along both axes has been meshed.
C7_Witness ==
    /\ Returned
    /\ imMap = [width |-> 2, height |-> 2]
    /\ \A c \in GridCells(imMap) : IsWallCell(c)
    /\ mesh.vertexCount > 0

\* C8: for every WALL cell and each of the four directions, the cell emits the face
\* on its boundary toward that direction, as two triangles and once, when the
\* neighbour is out of bounds or OPEN, and no face on that boundary otherwise; and
\* it emits its top and its bottom face whatever the neighbours are.
C8_SideFaceIffNeighbourOpenOrOutside ==
    Returned =>
        \A c \in GridCells(imMap) :
            IsWallCell(c) =>
                /\ \A d \in Dirs :
                     LET n == Neighbour(c, d)
                         on == { i \in FacesBy(c) : VertexSet(i) \subseteq BoundaryCorners(c, d) }
                     IN  IF n \notin GridCells(imMap) \/ IsOpenCell(n)
                         THEN /\ Cardinality(on) = 1
                              /\ \A i \in on : Covers(i, BoundaryCorners(c, d))
                         ELSE on = {}
                /\ \E i \in FacesBy(c) : Covers(i, LevelCorners(c, cubeSize))
                /\ \E i \in FacesBy(c) : Covers(i, LevelCorners(c, 0))

\* A WALL cell with an OPEN neighbour, a neighbour of another colour and two edges
\* of the map has been meshed: it emitted its top, its bottom and three sides.
C8_Witness ==
    /\ Returned
    /\ \E c \in GridCells(imMap) :
         /\ IsWallCell(c)
         /\ \E d \in Dirs : Neighbour(c, d) \notin GridCells(imMap)
         /\ \E d \in Dirs : Neighbour(c, d) \in GridCells(imMap) /\ IsOpenCell(Neighbour(c, d))
         /\ \E d \in Dirs : /\ Neighbour(c, d) \in GridCells(imMap)
                            /\ ~IsOpenCell(Neighbour(c, d))
                            /\ ~IsWallCell(Neighbour(c, d))
         /\ Cardinality(FacesBy(c)) = 5

\* C9: every OPEN cell emits exactly two faces (four triangles): one over its
\* footprint at height 0 whose triangles and normals face up, and one at height
\* cubeSize whose triangles and normals face down; so none on a side.
C9_OpenCellFloorAndCeilingOnly ==
    Returned =>
        \A c \in GridCells(imMap) :
            IsOpenCell(c) =>
                /\ Cardinality(FacesBy(c)) = 2
                /\ \E f \in FacesBy(c) :
                     /\ Covers(f, LevelCorners(c, 0))
                     /\ WindingY(Corner(f, 1), Corner(f, 2), Corner(f, 3)) > 0
                     /\ WindingY(Corner(f, 4), Corner(f, 5), Corner(f, 6)) > 0
                     /\ NormalSet(f) = {V3(0, 1, 0)}
                /\ \E g \in FacesBy(c) :
                     /\ Covers(g, LevelCorners(c, cubeSize))
                     /\ WindingY(Corner(g, 1), Corner(g, 2), Corner(g, 3)) < 0
                     /\ WindingY(Corner(g, 4), Corner(g, 5), Corner(g, 6)) < 0
                     /\ NormalSet(g) = {V3(0, -1, 0)}

\* An OPEN cell with a WALL neighbour, an OPEN neighbour and an edge of the map has
\* been meshed.
C9_Witness ==
    /\ Returned
    /\ \E c \in GridCells(imMap) :
         /\ IsOpenCell(c)
         /\ \E d \in Dirs : Neighbour(c, d) \notin GridCells(imMap)
         /\ \E d \in Dirs : Neighbour(c, d) \in GridCells(imMap) /\ IsWallCell(Neighbour(c, d))
         /\ \E d \in Dirs : Neighbour(c, d) \in GridCells(imMap) /\ IsOpenCell(Neighbour(c, d))
         /\ FacesBy(c) /= {}

AllWall == \A c \in GridCells(imMap) : IsWallCell(c)

\* The directions in which cell c has no neighbour inside the map.
OutsideDirs(c) == { d \in Dirs : Neighbour(c, d) \notin GridCells(imMap) }

\* C11 as stated: in a map of WALL cells only (so that no cell has an OPEN
\* neighbour), every cell emits all six faces.  (Does not hold: two adjacent WALL
\* cells emit no face on their shared boundary, see C7.)
C11_AllWallCellsEmitSixFaces ==
    (Returned /\ AllWall) => \A c \in GridCells(imMap) : Cardinality(FacesBy(c)) = 6

\* C11, amended: in a map of WALL cells only, every cell emits its top, its bottom
\* and exactly one face on each of its sides that lie on the edge of the map, and
\* nothing else; so a cell emits all six faces (12 triangles) exactly when its four
\* neighbours are all outside the map, as in the 1x1 map.
C11_AllWallCellsEmitTopBottomAndEdgeSides ==
    (Returned /\ AllWall) =>
        \A c \in GridCells(imMap) :
            /\ Cardinality(FacesBy(c)) = 2 + Cardinality(OutsideDirs(c))
            /\ \E i \in FacesBy(c) : Covers(i, LevelCorners(c, cubeSize))
            /\ \E i \in FacesBy(c) : Covers(i, LevelCorners(c, 0))
            /\ \A d \in OutsideDirs(c) : \E i \in FacesBy(c) : Covers(i, BoundaryCorners(c, d))
            /\ (Cardinality(FacesBy(c)) = 6) <=> (OutsideDirs(c) = Dirs)
            /\ (imMap.width = 1 /\ imMap.height = 1) => mesh.vertexCount = 36

\* The 1x1 map of one WALL cell has been meshed: 12 triangles.
C11_Witness ==
    /\ Returned
    /\ AllWall
    /\ imMap = [width |-> 1, height |-> 1]
    /\ Len(faces) = 6

\* The 3x3 map that is WALL everywhere except its OPEN centre.
RingMap == MapOf(3, 3, WHITE, (4 :> BLACK))
Centre == <<1, 1>>

\* The geometric normal (b - a) x (c - a) of the triangle a, b, c.
Cross(a, b, c) ==
    LET ux == b.x - a.x  uy == b.y - a.y  uz == b.z - a.z
        wx == c.x - a.x  wy == c.y - a.y  wz == c.z - a.z
    IN  V3(uy * wz - uz * wy, uz * wx - ux * wz, ux * wy - uy * wx)

\* Both triangles of face i are wound counter-clockwise for a viewer on the side
\* the direction n (a unit vector along an axis) points to: their geometric normals
\* are positive multiples of n.
WoundToward(i, n) ==
    \A t \in {0, 3} :
        LET g == Cross(Corner(i, t + 1), Corner(i, t + 2), Corner(i, t + 3))
            dot == g.x * n.x + g.y * n.y + g.z * n.z
        IN  /\ dot > 0
            /\ g.x * g.x + g.y * g.y + g.z * g.z = dot * dot

\* C12: the mesh of the ring map has a top and a bottom face for each of the 9
\* cells; on each of the four boundaries of the centre cell exactly one face,
\* emitted by the orthogonal neighbour on that side and wound to face the centre;
\* one face on each side that lies on the edge of the map; and nothing else (so
\* the corner cells emit no face toward the inside).
C12_RingMapFaces ==
    (Returned /\ imMap = RingMap.im /\ mapPixels = RingMap.px) =>
        /\ \A c \in GridCells(imMap) :
             /\ Cardinality({ i \in FacesBy(c) : Covers(i, LevelCorners(c, cubeSize)) }) = 1
             /\ Cardinality({ i \in FacesBy(c) : Covers(i, LevelCorners(c, 0)) }) = 1
             /\ \A d \in OutsideDirs(c) :
                  Cardinality({ i \in FacesBy(c) : Covers(i, BoundaryCorners(c, d)) }) = 1
        /\ \A d \in Dirs :
             LET on == { i \in MeshFaces : VertexSet(i) \subseteq BoundaryCorners(Centre, d) }
             IN  /\ Cardinality(on) = 1
                 /\ \A i \in on : /\ By(i) = Neighbour(Centre, d)
                                  /\ Covers(i, BoundaryCorners(Centre, d))
                                  /\ WoundToward(i, V3(-d[1], 0, -d[2]))
        /\ \A c \in {<<0, 0>>, <<2, 0>>, <<0, 2>>, <<2, 2>>} : Cardinality(FacesBy(c)) = 4
        /\ Len(faces) = 18 + 4 + 12

\* The ring map has been meshed.
C12_Witness ==
    /\ Returned
    /\ imMap = RingMap.im
    /\ mapPixels = RingMap.px
    /\ mesh.vertexCount = 6 * 34

\* C13: at every point of the generation each counter is at most W*H*12*3 and every
\* element written to a scratch buffer lies inside its allocation; the mesh
\* returned has at most W*H*12*3 vertices and holds the vertices, normals and
\* texture coordinates written, in the order they were written, and nothing more.
C13_WithinBuffersAndNoPadding ==
    LET cap == maxTriangles(imMap) * 3
    IN  /\ counters.vCounter <= cap
        /\ counters.nCounter <= cap
        /\ counters.tcCounter <= cap
        /\ DOMAIN mapVertices \subseteq 0 .. (cap - 1)
        /\ DOMAIN mapNormals \subseteq 0 .. (cap - 1)
        /\ DOMAIN mapTexcoords \subseteq 0 .. (cap - 1)
        /\ Returned =>
             /\ mesh.vertexCount <= cap
             /\ mesh.vertexCount = 6 * Len(faces)
             /\ Len(mesh.vertices) = 3 * mesh.vertexCount
             /\ Len(mesh.normals) = 3 * mesh.vertexCount
             /\ Len(mesh.texcoords) = 2 * mesh.vertexCount
             /\ \A i \in MeshFaces, j \in 1 .. 6 :
                  LET k == 6 * (i - 1) + j - 1
                      f == faces[i]
                  IN  /\ MeshVertex(k) = FaceVertices(f.x, f.z, f.face)[j]
                      /\ MeshNormal(k) = FaceNormal(f.face)
                      /\ V2(mesh.texcoords[2 * k + 1], mesh.texcoords[2 * k + 2])
                           = FaceTexcoords(f.face)[j]

\* A map has been meshed that fills the scratch buffers to the last element.
C13_Witness ==
    /\ Returned
    /\ imMap.width * imMap.height >= 1
    /\ mesh.vertexCount = maxTriangles(imMap) * 3

\* The direction a face of cell c with the given vertices is seen from: a level
\* face of a WALL cell from above (top) or below (bottom), a level face of an
\* OPEN cell from inside the corridor, a side face from the neighbouring cell.
SeenFrom(c, i) ==
    LET fp == Footprint(c[1], c[2])
        vs == VertexSet(i)
    IN  CASE \A v \in vs : v.y = cubeSize -> IF IsWallCell(c) THEN V3(0, 1, 0) ELSE V3(0, -1, 0)
          [] \A v \in vs : v.y = 0 -> IF IsWallCell(c) THEN V3(0, -1, 0) ELSE V3(0, 1, 0)
          [] \A v \in vs : v.x = fp.xmax -> V3(1, 0, 0)
          [] \A v \in vs : v.x = fp.xmin -> V3(-1, 0, 0)
          [] \A v \in vs : v.z = fp.zmax -> V3(0, 0, 1)
          [] \A v \in vs : v.z = fp.zmin -> V3(0, 0, -1)
          [] OTHER -> V3(0, 0, 0)

\* C15: every triangle of the returned mesh has three distinct vertices that are
\* not collinear, and is wound counter-clockwise seen from the side its face is
\* seen from.
C15_TrianglesWoundCounterClockwise ==
    Returned =>
        \A i \in MeshFaces :
            /\ Cardinality({Corner(i, 1), Corner(i, 2), Corner(i, 3)}) = 3
            /\ Cardinality({Corner(i, 4), Corner(i, 5), Corner(i, 6)}) = 3
            /\ Cross(Corner(i, 1), Corner(i, 2), Corner(i, 3)) /= V3(0, 0, 0)
            /\ Cross(Corner(i, 4), Corner(i, 5), Corner(i, 6)) /= V3(0, 0, 0)
            /\ WoundToward(i, SeenFrom(By(i), i))

\* A mesh with all eight kinds of face has been returned: a WALL cell with its four
\* sides, and an OPEN cell.
C15_Witness ==
    /\ Returned
    /\ { faces[i].face : i \in MeshFaces } = { FaceOrder[k] : k \in 1 .. Len(FaceOrder) }
    /\ \E c \in GridCells(imMap) : IsWallCell(c) /\ Cardinality(FacesBy(c)) = 6

\* The cells of the grid that the collision scan of lines 326-333 visits and whose
\* pixel passes its collider test.
Colliders(im, px) ==
    { c \in GridCells(im) \cap ScanCells(im) : ReadRed(im, px, ScanIndex(im, c), 0) = 255 }

\* The cells the returned mesh has a WALL cube for: those that emitted a top face.
WallCubes == { By(i) : i \in { j \in MeshFaces : faces[j].face = "top" } }

\* C22: for every grid, also one with pixels that are neither white nor black, the
\* cells the collision step treats as solid are the cells the generator built a
\* WALL cube for.
C22_CollidersAreTheWallCubes ==
    Returned => Colliders(imMap, mapPixels) = WallCubes

\* The six axis-aligned unit vectors.
AxisUnits == {V3(1, 0, 0), V3(-1, 0, 0), V3(0, 1, 0), V3(0, -1, 0), V3(0, 0, 1), V3(0, 0, -1)}

\* C28: every face of the returned mesh stores one normal for its six vertices, an
\* axis-aligned unit vector, and it is the direction the counter-clockwise winding
\* of the face's two triangles faces.
C28_NormalsFollowWinding ==
    Returned =>
        \A i \in MeshFaces :
            \E n \in AxisUnits : NormalSet(i) = {n} /\ WoundToward(i, n)

----------------------------------------------------------------------------
(* The camera over the frames of the main loop *)

\* Some movement key was held in the frame's UpdateCamera call.
KeyHeld(direction) == \E k \in CameraMove : direction[k] = 1

\* C17: the swing counter grows by exactly 1 in every frame in which a movement
\* key is held and is unchanged by every other frame and step, so it never
\* decreases; rolled-back frames and frames whose keys cancel count like the others.
C17_SwingCountsFramesWithKeyHeld ==
    [][swingCounter' = swingCounter + (IF pc = "update" /\ KeyHeld(moveKeys') THEN 1 ELSE 0)]_vars

\* The first frame with keys held, W and S that cancel each other, was rolled back
\* by the collision step, and it was counted.
C17_Witness ==
    /\ pc = "draw"
    /\ resolved = "rollback"
    /\ moveKeys[MOVE_FRONT] = 1
    /\ moveKeys[MOVE_BACK] = 1
    /\ camera.position.x = Vector3One.x
    /\ camera.position.z = Vector3One.z
    /\ swingCounter = 1

\* The unit vector along which key k moves a camera of the given yaw (in quarter
\* turns): forward is the horizontal direction the camera looks in, right is that
\* direction turned clockwise seen from above, up is the y axis.
Forward(yaw) ==
    CASE yaw % 4 = 0 -> V3(0, 0, -1)
      [] yaw % 4 = 1 -> V3(-1, 0, 0)
      [] yaw % 4 = 2 -> V3(0, 0, 1)
      [] OTHER -> V3(1, 0, 0)
KeyAxis(k, yaw) ==
    LET f == Forward(yaw)
    IN  CASE k = MOVE_FRONT -> f
          [] k = MOVE_BACK -> V3(-f.x, 0, -f.z)
          [] k = MOVE_RIGHT -> V3(-f.z, 0, f.x)
          [] k = MOVE_LEFT -> V3(f.z, 0, -f.x)
          [] k = MOVE_UP -> V3(0, 1, 0)
          [] OTHER -> V3(0, -1, 0)

\* The sum of the contributions of the held keys, 1/20 unit each.
RECURSIVE KeySum(_, _, _)
KeySum(keys, direction, yaw) ==
    IF keys = {} THEN V3(0, 0, 0)
    ELSE LET k == CHOOSE e \in keys : TRUE
             rest == KeySum(keys \ {k}, direction, yaw)
             a == KeyAxis(k, yaw)
         IN  V3(rest.x + direction[k] * a.x * Step,
                rest.y + direction[k] * a.y * Step,
                rest.z + direction[k] * a.z * Step)

\* C23 as stated: the tentative position UpdateCamera computes is the previous
\* position plus the contributions of the held keys along the forward, right and
\* vertical axes of the yaw before the frame's mouse movement.  (Does not hold in
\* y: line 1240 sets the height to the eye position whatever the keys are.)
C23_TentativeIsPreviousPlusKeys ==
    [][(pc = "update" /\ pc' = "draw") =>
         LET d == KeySum(CameraMove, moveKeys', cameraAngle.x)
         IN  matModelview'.position = V3(camera.position.x + d.x, camera.position.y + d.y,
                                         camera.position.z + d.z)]_vars

\* C23 as amended: the same for the horizontal components x and z; the height is
\* the eye position less the swing bob, whatever keys are held.
C23_TentativeXZIsPreviousPlusKeys ==
    [][(pc = "update" /\ pc' = "draw") =>
         LET d == KeySum(CameraMove, moveKeys', cameraAngle.x)
             t == matModelview'.position
         IN  /\ t.x = camera.position.x + d.x
             /\ t.z = camera.position.z + d.z
             /\ Abs(t.y - playerEyesPosition) <= Scale \div CAMERA_FIRST_PERSON_STEP_DIVIDER + 1]_vars

\* The first frame with a key held had W held and turned the camera by a quarter:
\* the tentative position is one step along the forward axis of the yaw before.
C23_Witness ==
    /\ pc = "draw"
    /\ moveKeys[MOVE_FRONT] = 1
    /\ moveKeys[MOVE_BACK] = 0
    /\ cameraAngle.x = 1
    /\ swingCounter = 1
    /\ matModelview.position.x = Vector3One.x
    /\ matModelview.position.z = Vector3One.z - Step

\* Whether the player circle at horizontal position pos reaches the footprint of
\* some WALL cell of the map, touching included.
WallTouch(pos) ==
    \E c \in GridCells(imMap) :
        IsWallCell(c) /\ CircleTouches(pos, playerRadius, Footprint(c[1], c[2]))

\* C27: in a frame whose tentative position keeps the player circle clear of every
\* WALL footprint (not even touching one), the collision step leaves the camera at
\* the tentative position.
C27_NoRollbackClearOfWalls ==
    (pc = "draw" /\ ~WallTouch(playerPos)) =>
        /\ resolved = "kept"
        /\ camera.position = matModelview.position

\* The map is square, black and white only, with WALL cells all along its border.
BorderedSquare ==
    /\ imMap.width = imMap.height
    /\ imMap.width >= 3
    /\ \A c \in GridCells(imMap) :
         /\ IsWallCell(c) \/ IsOpenCell(c)
         /\ (c[1] \in {0, imMap.width - 1} \/ c[2] \in {0, imMap.height - 1}) => IsWallCell(c)

\* C30: on such a map a player that starts inside an OPEN cell clear of the walls
\* stays, at every point of every frame sequence, inside the map's extent
\* [-0.5, W-0.5] x [-0.5, H-0.5], inside an OPEN cell, and off every WALL footprint.
C30_StaysInsideTheWalls ==
    (BorderedSquare /\ InOpenCell(StartPos) /\ ~WallOverlap(StartPos)) =>
        LET p == Horizontal(camera.position)
        IN  /\ p.x >= -(Scale \div 2) /\ p.x <= imMap.width * Scale - Scale \div 2
            /\ p.y >= -(Scale \div 2) /\ p.y <= imMap.height * Scale - Scale \div 2
            /\ InOpenCell(p)
            /\ ~WallOverlap(p)

\* On such a map the player has walked up to a wall, and the frame that would have
\* taken the circle into it was rolled back.
C30_Witness ==
    /\ BorderedSquare
    /\ pc = "draw"
    /\ resolved = "rollback"
    /\ WallTouch(playerPos)
    /\ ~WallOverlap(Horizontal(camera.position))
    /\ camera.position.x /= Vector3One.x

\* The point CAMERA_FIRST_PERSON_FOCUS_DISTANCE away from pos along the yaw and
\* pitch of angle.
FocusPoint(pos, angle) ==
    [x |-> pos.x - SinQ(angle.x) * CAMERA_FIRST_PERSON_FOCUS_DISTANCE * Scale,
     y |-> pos.y + CDiv(SinMilli(angle.y) * CAMERA_FIRST_PERSON_FOCUS_DISTANCE * Scale, 1000),
     z |-> pos.z - CosQ(angle.x) * CAMERA_FIRST_PERSON_FOCUS_DISTANCE * Scale]

\* C18: at the end of every frame's update, after UpdateCamera and the collision
\* step, the camera's target is its final position plus the 25-unit vector of the
\* current yaw and pitch, in x, y and z.
C18_TargetIsPositionPlusFocusVector ==
    pc = "draw" => camera.target = FocusPoint(camera.position, cameraAngle)

\* C19: the view transform a frame's draw call used has the collision-corrected
\* camera position as its eye: after a rollback the frame was drawn from the
\* position before the move, not from the rejected one.
C19_DrawnFromCorrectedPosition ==
    rendered.drawn => rendered.position = camera.position

----------------------------------------------------------------------------
(* UpdateCamera, call after call, on mouse movements of every size *)

\* Vertical mouse movements in pixels, from none to far beyond the screen, and the
\* key states of the calls.
MaxLook == 100000
LookMoves == {-MaxLook, -50, 0, 50, MaxLook}
CamDirections ==
    { [k \in CameraMove |-> IF k \in held THEN 1 ELSE 0] : held \in { {}, {MOVE_FRONT} } }

CamInit ==
    /\ \E m \in GameMaps : m.im.width = 3 /\ imMap = m.im /\ mapPixels = m.px
    /\ CameraInit
    /\ Running
    /\ playerPos = NoPos
    /\ resolved = "none"
    /\ readIdx = {}
    /\ pc = "camera"
    /\ ColIdle
    /\ MeshIdle

\* One call UpdateCamera(&camera), as line 300 makes it.
CallUpdateCamera ==
    /\ pc = "camera"
    /\ \E direction \in CamDirections, dy \in LookMoves :
       \E u \in {UpdateCamera(camera, cameraAngle, swingCounter, direction, 0, dy)} :
            /\ u.swingCounter <= MaxSwing
            /\ camera' = u.camera
            /\ cameraAngle' = u.cameraAngle
            /\ swingCounter' = u.swingCounter
            /\ moveKeys' = direction
            /\ mousePositionDelta' = dy
    /\ UNCHANGED <<inputVars, timeVars, printed, sysVars, mapVars, playerPos, resolved, readIdx, pc, matModelview, rendered,
                   colVars, meshVars>>

CamNext == CallUpdateCamera

SpecCam == CamInit /\ [][CamNext]_vars

\* C16: after every UpdateCamera call, whatever the mouse movements were, the pitch
\* angle lies between -85 and +85 degrees.
C16_PitchWithinClamp ==
    /\ cameraAngle.y >= -DegToMicro(85)
    /\ cameraAngle.y <= DegToMicro(85)

\* A call whose mouse movement alone is far beyond the limit left the pitch on it.
C16_Witness ==
    /\ pc = "camera"
    /\ mousePositionDelta = -MaxLook
    /\ MaxLook * CAMERA_MOUSE_MOVE_SENSITIVITY > DegToMicro(85)
    /\ cameraAngle.y = DegToMicro(85)

----------------------------------------------------------------------------
(* main from its first statement: initialization, then the main loop *)

\* A variant of TraceLogExits for a TraceLog that returns after every message.
TraceLogReturns(msgType) == FALSE

\* TraceLog, line 1451: exit(1) after a message of type LOG_ERROR.
TraceLogExits(msgType) == msgType = LOG_ERROR

\* ErrorCallback, lines 370-373: the type of the message it hands to TraceLog.
ErrorCallback == LOG_ERROR

\* The windowing library: glfwInit and glfwCreateWindow succeed or fail, and a
\* failure is reported to the callback set at line 404 before the call returns.
GlfwOutcomes == {"ok", "error"}
GlfwReports(outcome) == outcome = "error"

\* The image decoder: stbi_load_from_file returns the pixels and writes the size,
\* or fails, returning NULL and leaving the size as line 601-602 set it.
StbiLoad(file, content) ==
    IF file.decodes THEN [data |-> content.px, width |-> content.im.width, height |-> content.im.height]
    ELSE [data |-> <<>>, width |-> 0, height |-> 0]

\* The files LoadImage is tried on: one that loads, one with an extension that is
\* not in the list, one that cannot be opened, one whose content does not decode.
SupportedExt == {".bmp", ".png", ".tga", ".jpg", ".gif", ".psd"}
MapFiles ==
    { MapFile,
      [ext |-> ".txt", opens |-> TRUE, decodes |-> TRUE],
      [ext |-> ".png", opens |-> FALSE, decodes |-> TRUE],
      [ext |-> ".png", opens |-> TRUE, decodes |-> FALSE] }

\* The content of the file that loads: a wall cell above an open one.
MainMaps == { MapOf(1, 2, WHITE, (1 :> BLACK)) }

\* A variant of LoadImage whose image starts as a 1x1 image without data.
LoadImageSized(file, content) ==
    IF file.ext \in SupportedExt /\ file.opens
    THEN LET d == StbiLoad(file, content)
         IN  [im |-> [width |-> d.width, height |-> d.height], px |-> d.data, logged |-> TRUE]
    ELSE [im |-> [width |-> 1, height |-> 1], px |-> <<>>, logged |-> FALSE]

\* LoadImage, lines 586-624: the image starts as { 0 } and is filled in only when
\* the extension is supported and the file opens; the message of line 618 follows
\* the decoder's return, whatever it was.
LoadImage(file, content) ==
    IF file.ext \in SupportedExt /\ file.opens
    THEN LET d == StbiLoad(file, content)
         IN  [im |-> [width |-> d.width, height |-> d.height], px |-> d.data, logged |-> TRUE]
    ELSE [im |-> [width |-> 0, height |-> 0], px |-> <<>>, logged |-> FALSE]

\* main's first statement: no window, nothing logged, no image.
MainInit ==
    /\ window = "NULL"
    /\ traceLog = {}
    /\ mapFile = NoFile
    /\ imMap = [width |-> 0, height |-> 0]
    /\ mapPixels = <<>>
    /\ CameraInit
    /\ playerPos = NoPos
    /\ resolved = "none"
    /\ readIdx = {}
    /\ pc = "InitWindow"
    /\ ColIdle
    /\ MeshIdle

\* InitWindow, lines 404-407: glfwInit.  A failure reaches ErrorCallback first;
\* if that returns, the warning of line 406 is written.
GlfwInit ==
    /\ pc = "InitWindow"
    /\ \E outcome \in GlfwOutcomes :
         IF ~GlfwReports(outcome)
         THEN /\ traceLog' = traceLog \cup {LOG_INFO}
              /\ pc' = "glfwCreateWindow"
         ELSE IF TraceLogExits(ErrorCallback)
         THEN /\ traceLog' = traceLog \cup {ErrorCallback}
              /\ pc' = "exited"
         ELSE /\ traceLog' = traceLog \cup {ErrorCallback, LOG_WARNING}
              /\ pc' = "glfwCreateWindow"
    /\ UNCHANGED <<inputVars, timeVars, printed, window, mapFile, mapVars, camera, cameraAngle, swingCounter, playerPos,
                   resolved, readIdx, moveKeys, mousePositionDelta, matModelview, rendered,
                   colVars, meshVars>>

\* InitWindow, lines 416-430: glfwCreateWindow, which fails when glfwInit did.  A
\* failure reaches ErrorCallback first; if that returns, window is NULL, line 418
\* calls glfwTerminate and the function goes on to its end.
CreateWindow ==
    /\ pc = "glfwCreateWindow"
    /\ \E outcome \in (IF LOG_WARNING \in traceLog THEN {"error"} ELSE GlfwOutcomes) :
         IF ~GlfwReports(outcome)
         THEN /\ window' = "WINDOW"
              /\ traceLog' = traceLog \cup {LOG_INFO}
              /\ pc' = "InitGraphicsDevice"
         ELSE IF TraceLogExits(ErrorCallback)
         THEN /\ window' = window
              /\ traceLog' = traceLog \cup {ErrorCallback}
              /\ pc' = "exited"
         ELSE /\ window' = "NULL"
              /\ traceLog' = traceLog \cup {ErrorCallback}
              /\ pc' = "InitGraphicsDevice"
    /\ UNCHANGED <<inputVars, timeVars, printed, mapFile, mapVars, camera, cameraAngle, swingCounter, playerPos,
                   resolved, readIdx, moveKeys, mousePositionDelta, matModelview, rendered,
                   colVars, meshVars>>

\* InitGraphicsDevice, lines 434-480: the extensions load in the window's context
\* (a warning without one), and the versions are logged.
InitGraphicsDevice ==
    /\ pc = "InitGraphicsDevice"
    /\ traceLog' = traceLog \cup (IF window = "WINDOW" THEN {LOG_INFO} ELSE {LOG_WARNING, LOG_INFO})
    /\ pc' = "LoadImage"
    /\ UNCHANGED <<inputVars, timeVars, printed, window, mapFile, mapVars, camera, cameraAngle, swingCounter, playerPos,
                   resolved, readIdx, moveKeys, mousePositionDelta, matModelview, rendered,
                   colVars, meshVars>>

\* main, line 275: imMap = LoadImage(...); the pixels are the image's data, which
\* line 280 copies to mapPixels.
LoadMap ==
    /\ pc = "LoadImage"
    /\ \E file \in MapFiles, content \in MainMaps :
       \E image \in {LoadImage(file, content)} :
            /\ imMap' = image.im
            /\ mapPixels' = image.px
            /\ mapFile' = file
            /\ traceLog' = IF image.logged THEN traceLog \cup {LOG_INFO} ELSE traceLog
    /\ pc' = "GenMeshCubicmap"
    /\ UNCHANGED <<inputVars, timeVars, printed, window, camera, cameraAngle, swingCounter, playerPos,
                   resolved, readIdx, moveKeys, mousePositionDelta, matModelview, rendered,
                   colVars, meshVars>>

\* main, line 276: GenMeshCubicmap(imMap, 1.0f), face by face.
GenEmitFace == pc = "GenMeshCubicmap" /\ EmitFace
GenSkipFace == pc = "GenMeshCubicmap" /\ SkipFace
GenReturnMesh == pc = "GenMeshCubicmap" /\ ReturnMesh

\* main, lines 277-290: the mesh is uploaded, the pixels are copied, the loop starts.
EnterLoop ==
    /\ pc = "GenMeshCubicmap"
    /\ mesh /= NoMesh
    /\ pc' = "update"
    /\ UNCHANGED <<inputVars, timeVars, printed, sysVars, mapVars, camera, cameraAngle, swingCounter, playerPos,
                   resolved, readIdx, moveKeys, mousePositionDelta, matModelview, rendered,
                   colVars, meshVars>>

MainNext ==
    \/ GlfwInit \/ CreateWindow \/ InitGraphicsDevice \/ LoadMap
    \/ GenEmitFace \/ GenSkipFace \/ GenReturnMesh \/ EnterLoop
    \/ UpdateFrame \/ DrawFrame

SpecMain == MainInit /\ [][MainNext]_vars

\* The map file could not be loaded.
LoadFailed == mapFile /= NoFile /\ ~(mapFile.ext \in SupportedExt /\ mapFile.opens /\ mapFile.decodes)

\* C14: when the map cannot be loaded (unsupported extension, file that does not
\* open, content that does not decode) the image is 0x0, the generator writes and
\* reads no buffer element and returns a mesh of 0 vertices, the program does not
\* exit, and the collision scan of every frame visits no cell.
C14_FailedLoadGivesEmptyMapAndMesh ==
    LoadFailed =>
        /\ imMap = [width |-> 0, height |-> 0]
        /\ pc /= "exited"
        /\ mapVertices = <<>> /\ mapNormals = <<>> /\ mapTexcoords = <<>>
        /\ mesh /= NoMesh =>
              mesh = [vertexCount |-> 0, vertices |-> <<>>, texcoords |-> <<>>, normals |-> <<>>]
        /\ pc \in {"update", "draw"} => mesh /= NoMesh
        /\ pc = "draw" => readIdx = {} /\ resolved = "kept"

\* The content did not decode, and the program is in a frame of the main loop that
\* moved the camera.
C14_Witness ==
    /\ LoadFailed
    /\ mapFile.ext = ".png" /\ mapFile.opens
    /\ pc = "draw"
    /\ mesh.vertexCount = 0
    /\ swingCounter = 2

\* C20: when the window or its context cannot be created, the failure is logged
\* and the process exits there: the later initialization steps and the frames of
\* the main loop run only with a window.
C20_NoWindowNoRun ==
    /\ pc \notin {"InitWindow", "glfwCreateWindow", "exited"} => window = "WINDOW"
    /\ window = "NULL" /\ pc \notin {"InitWindow", "glfwCreateWindow"} =>
          /\ pc = "exited"
          /\ LOG_ERROR \in traceLog
    /\ pc = "exited" =>
          /\ window = "NULL"
          /\ mapFile = NoFile
          /\ mesh = NoMesh
          /\ swingCounter = 0
          /\ ~rendered.drawn

\* glfwInit succeeded, glfwCreateWindow failed, and the process has exited.
C20_Witness ==
    /\ pc = "exited"
    /\ traceLog = {LOG_INFO, LOG_ERROR}
    /\ window = "NULL"

----------------------------------------------------------------------------
(* SetTargetFPS and SyncFrame, read of the clock by read of the clock *)

\* Largest time, in ticks, at which a call of SyncFrame is let to start.
MaxClock == 6

\* A time (a double, in seconds, lines 173-175) is a whole number of ticks.
TicksPerSecond == 4

\* The frame rates SetTargetFPS is called with: below 1, and those whose frame time
\* is a whole number of ticks.
TargetRates == {-1, 0, 1, 2, TicksPerSecond}

\* SetTargetFPS, lines 499-500.
TargetTimeOf(fps) == IF fps < 1 THEN 0 ELSE TicksPerSecond \div fps

\* Line 518, with the start of the wait left out of the elapsed time.
WaitingSinceZero(w, target, elapsed) == w.nextTime < (target - elapsed)

\* Line 518: the condition of the busy wait loop.
Waiting(w, target, elapsed) == (w.nextTime - w.prevTime) < (target - elapsed)

\* The time up to which the clock is followed: MaxClock, and in a wait the time at
\* which the wait is over whatever the frame took.
ClockLimit ==
    IF pc = "while" /\ waitLoop.prevTime + targetTime > MaxClock
    THEN waitLoop.prevTime + targetTime
    ELSE MaxClock

SyncInit ==
    /\ \E m \in GameMaps : m.im.width = 3 /\ imMap = m.im /\ mapPixels = m.px
    /\ CameraInit
    /\ Running
    /\ playerPos = NoPos
    /\ resolved = "none"
    /\ readIdx = {}
    /\ pc = "SetTargetFPS"
    /\ ColIdle
    /\ MeshIdle

\* Time passes: glfwGetTime() will return more.
Tick ==
    /\ clock < ClockLimit
    /\ clock' = clock + 1
    /\ UNCHANGED <<currentTime, previousTime, frameTime, targetTime, targetFPS, waitLoop,
                   inputVars, sysVars, mapVars, gameVars, colVars, meshVars>>

\* Line 290, for any rate: SetTargetFPS(fps).
SetTargetFPS ==
    /\ pc = "SetTargetFPS"
    /\ \E fps \in TargetRates :
        /\ targetFPS' = fps
        /\ targetTime' = TargetTimeOf(fps)
    /\ pc' = "loop"
    /\ UNCHANGED <<clock, currentTime, previousTime, frameTime, waitLoop,
                   inputVars, sysVars, mapVars, camera, cameraAngle, swingCounter, playerPos,
                   resolved, readIdx, moveKeys, mousePositionDelta, matModelview, rendered,
                   printed, colVars, meshVars>>

\* SyncFrame, lines 507-512, called at the end of an iteration (line 351).
SyncFrameEnter ==
    /\ pc \in {"loop", "returned"}
    /\ clock <= MaxClock
    /\ currentTime' = clock
    /\ frameTime' = clock - previousTime
    /\ previousTime' = clock
    /\ pc' = IF frameTime' < targetTime THEN "prevTime" ELSE "returned"
    /\ UNCHANGED <<clock, targetTime, targetFPS, waitLoop,
                   inputVars, sysVars, mapVars, camera, cameraAngle, swingCounter, playerPos,
                   resolved, readIdx, moveKeys, mousePositionDelta, matModelview, rendered,
                   printed, colVars, meshVars>>

\* Lines 514-515.
ReadPrevTime ==
    /\ pc = "prevTime"
    /\ waitLoop' = [prevTime |-> clock, nextTime |-> 0]
    /\ pc' = "while"
    /\ UNCHANGED <<clock, currentTime, previousTime, frameTime, targetTime, targetFPS,
                   inputVars, sysVars, mapVars, camera, cameraAngle, swingCounter, playerPos,
                   resolved, readIdx, moveKeys, mousePositionDelta, matModelview, rendered,
                   printed, colVars, meshVars>>

\* Line 518: one test of the loop's condition, and one pass of its body if it holds.
WaitLoop ==
    /\ pc = "while"
    /\ IF Waiting(waitLoop, targetTime, frameTime)
       THEN /\ waitLoop' = [waitLoop EXCEPT !.nextTime = clock]
            /\ pc' = pc
       ELSE /\ waitLoop' = waitLoop
            /\ pc' = "extraTime"
    /\ UNCHANGED <<clock, currentTime, previousTime, frameTime, targetTime, targetFPS,
                   inputVars, sysVars, mapVars, camera, cameraAngle, swingCounter, playerPos,
                   resolved, readIdx, moveKeys, mousePositionDelta, matModelview, rendered,
                   printed, colVars, meshVars>>

\* Lines 520-524, and the return.
EndWait ==
    /\ pc = "extraTime"
    /\ LET extraTime == clock - previousTime
       IN  /\ currentTime' = clock
           /\ previousTime' = clock
           /\ frameTime' = frameTime + extraTime
    /\ pc' = "returned"
    /\ UNCHANGED <<clock, targetTime, targetFPS, waitLoop,
                   inputVars, sysVars, mapVars, camera, cameraAngle, swingCounter, playerPos,
                   resolved, readIdx, moveKeys, mousePositionDelta, matModelview, rendered,
                   printed, colVars, meshVars>>

SyncProgram == SetTargetFPS \/ SyncFrameEnter \/ ReadPrevTime \/ WaitLoop \/ EndWait

SyncNext == Tick \/ SyncProgram

\* The clock keeps advancing and the program keeps running.
SpecSync == SyncInit /\ [][SyncNext]_vars /\ WF_vars(Tick) /\ WF_vars(SyncProgram)

InWait == pc \in {"prevTime", "while", "extraTime"}

\* C25: under a clock that keeps advancing, the busy wait of SyncFrame ends in every
\* frame; with a target rate of at least 1, the frame time recorded when SyncFrame
\* returns is at least the target frame time; with a target rate below 1, SyncFrame
\* never waits.
C25_WaitEndsAndFillsTheFrame ==
    /\ [](pc = "returned" /\ targetFPS >= 1 => frameTime >= targetTime)
    /\ [](pc /= "SetTargetFPS" /\ targetFPS < 1 => ~InWait)
    /\ (InWait ~> pc = "returned")

\* A wait of the longest target frame time (one second, at 1 FPS) that has read the
\* clock more than once and is over.
C25_Witness ==
    /\ pc = "returned"
    /\ targetFPS = 1
    /\ waitLoop.nextTime - waitLoop.prevTime >= TicksPerSecond
    /\ frameTime > targetTime

----------------------------------------------------------------------------
(* The main loop step by step, with the events the polls deliver *)

\* Largest number of iterations of the main loop followed.
MaxFrames == 3
\* Largest number of events one call of glfwPollEvents delivers.
MaxEvents == 2

\* The four state arrays of lines 179-182 and their sizes.
StateArrays == {"previousKeyState", "currentKeyState", "previousMouseState", "currentMouseState"}
SizeOf(array) ==
    IF array \in {"previousKeyState", "currentKeyState"} THEN KeyStateSize ELSE MouseStateSize

\* A store outside its array writes a byte before or after it.  What lies there is
\* the build's choice.  The arrays are declared in pairs, previous then current:
\* the byte is one of none of the four arrays (Elsewhere), or, where the build
\* lays the pair out side by side, the entry of the pair's other array at the same
\* distance from the side they share.
Elsewhere == [array |-> "none", index |-> 0]
TwinOf(array) ==
    IF array = "currentKeyState" THEN "previousKeyState"
    ELSE IF array = "previousKeyState" THEN "currentKeyState"
    ELSE IF array = "currentMouseState" THEN "previousMouseState"
    ELSE "currentMouseState"
Landings(array, index) ==
    IF index \in 0 .. (SizeOf(array) - 1)
    THEN {[array |-> array, index |-> index]}
    ELSE {Elsewhere} \cup
         { [array |-> TwinOf(array), index |-> i] :
             i \in {IF index < 0 THEN SizeOf(array) + index ELSE index - SizeOf(array)}
                   \cap (0 .. (SizeOf(array) - 1)) }

\* array[index] = value, as the build performs it: `land` is where the byte goes.
Store(s, array, index, value, land) ==
    IF index \in 0 .. (SizeOf(array) - 1)
    THEN [s EXCEPT ![array][index] = value]
    ELSE LET w == [s EXCEPT !.wild = @ \cup {[array |-> array, index |-> index]}]
         IN  IF land = Elsewhere THEN w ELSE [w EXCEPT ![land.array][land.index] = value]

\* Lines 376-383, with the test of line 378 left out.
KeyCallbackStoresAll(s, key, action, land) == Store(s, "currentKeyState", key, action, land)

\* KeyCallback, lines 376-383.
KeyCallback(s, key, action, land) ==
    IF key = GLFW_KEY_ESCAPE /\ action = GLFW_PRESS
    THEN [s EXCEPT !.shouldClose = TRUE]
    ELSE Store(s, "currentKeyState", key, action, land)

\* MouseButtonCallback, lines 386-389.
MouseButtonCallback(s, button, action, land) ==
    Store(s, "currentMouseState", button, action, land)

\* The keys and the mouse buttons whose events the polls deliver: the key the
\* update asks for, the escape key, a key the library has no name for; the first
\* button, and the first and the last of the buttons past the three the arrays hold.
EventKeys == {GLFW_KEY_UNKNOWN, GLFW_KEY_SPACE, GLFW_KEY_ESCAPE}
EventButtons == {0, MouseStateSize, GLFW_MOUSE_BUTTON_LAST}

\* The events glfwPollEvents can deliver when the library holds `down` as pressed:
\* a key or button that is up is pressed, one that is down repeats (a key) or is
\* released; the library keeps no state of the unknown key; the user asks for the
\* window to be closed.
KeyOf(k) == [device |-> "key", code |-> k]
ButtonOf(b) == [device |-> "button", code |-> b]
CloseEvent == [device |-> "close", code |-> 0, action |-> GLFW_PRESS, land |-> Elsewhere]
KeyEventCan(down, k, a) ==
    IF k = GLFW_KEY_UNKNOWN THEN a \in {GLFW_RELEASE, GLFW_PRESS}
    ELSE (a = GLFW_PRESS) <=> (KeyOf(k) \notin down)
ButtonEventCan(down, b, a) ==
    a \in {GLFW_RELEASE, GLFW_PRESS} /\ ((a = GLFW_PRESS) <=> (ButtonOf(b) \notin down))
Events(down) ==
    {CloseEvent} \cup
    UNION { { [device |-> "key", code |-> ka[1], action |-> ka[2], land |-> l] :
                l \in Landings("currentKeyState", ka[1]) } :
            ka \in { x \in EventKeys \X {GLFW_RELEASE, GLFW_PRESS, GLFW_REPEAT} :
                        KeyEventCan(down, x[1], x[2]) } } \cup
    UNION { { [device |-> "button", code |-> ba[1], action |-> ba[2], land |-> l] :
                l \in Landings("currentMouseState", ba[1]) } :
            ba \in { x \in EventButtons \X {GLFW_RELEASE, GLFW_PRESS} :
                        ButtonEventCan(down, x[1], x[2]) } }

\* What the library holds as pressed once it has delivered the event.
DownAfter(down, e) ==
    IF e.device = "close" \/ (e.device = "key" /\ e.code = GLFW_KEY_UNKNOWN) THEN down
    ELSE IF e.action = GLFW_RELEASE THEN down \ {[device |-> e.device, code |-> e.code]}
    ELSE down \cup {[device |-> e.device, code |-> e.code]}

\* glfwPollEvents, line 579: the library calls the callback of each event (lines
\* 423-424), or sets the close flag.
Deliver(s, e) ==
    LET t == IF e.device = "key" THEN KeyCallback(s, e.code, e.action, e.land)
             ELSE IF e.device = "button" THEN MouseButtonCallback(s, e.code, e.action, e.land)
             ELSE [s EXCEPT !.shouldClose = TRUE]
    IN  [t EXCEPT !.keysDown = DownAfter(@, e)]

\* The iterations whose poll pressed the space key without releasing it afterwards,
\* once the event is delivered in the poll of iteration f.
PressPollsAfter(held, f, e) ==
    IF e.device = "key" /\ e.code = GLFW_KEY_SPACE /\ e.action = GLFW_PRESS THEN held \cup {f}
    ELSE IF e.device = "key" /\ e.code = GLFW_KEY_SPACE /\ e.action = GLFW_RELEASE THEN held \ {f}
    ELSE held

\* The steps of one iteration of the main loop with the input poll first.
LoopOrderPollFirst == <<"poll", "update", "draw", "sync">>

\* Lines 294-353: the steps of one iteration of the main loop, in the order of the
\* statements: the update (298-339), the draw (345-349), PollInputEvents (350),
\* SyncFrame (351).
LoopOrder == <<"update", "draw", "poll", "sync">>
NextStep(step) ==
    LET i == CHOOSE j \in DOMAIN LoopOrder : LoopOrder[j] = step
    IN  IF i = Len(LoopOrder) THEN "top" ELSE LoopOrder[i + 1]

\* main, lines 255-294: the main loop is reached, on the ring map.
LoopInit ==
    /\ imMap = RingMap.im
    /\ mapPixels = RingMap.px
    /\ CameraInit
    /\ Running
    /\ playerPos = NoPos
    /\ resolved = "none"
    /\ readIdx = {}
    /\ pc = "top"
    /\ ColIdle
    /\ MeshIdle

\* Line 294: the loop's condition.
LoopTop ==
    /\ pc = "top"
    /\ frame <= MaxFrames
    /\ pc' = IF shouldClose THEN "exited" ELSE LoopOrder[1]
    /\ UNCHANGED <<inputVars, timeVars, sysVars, mapVars, camera, cameraAngle, swingCounter,
                   playerPos, resolved, readIdx, moveKeys, mousePositionDelta, matModelview,
                   rendered, printed, colVars, meshVars>>

\* Lines 298-339, with no movement key down and the mouse at rest.
UpdateStep ==
    /\ UpdateFrame
    /\ moveKeys' = NoKeys
    /\ cameraAngle' = cameraAngle
    /\ mousePositionDelta' = 0

\* Lines 345-349: clear, draw, swap.
DrawStep ==
    /\ pc = "draw"
    /\ rendered' = DrawModel(matModelview)
    /\ pc' = NextStep("draw")
    /\ UNCHANGED <<inputVars, timeVars, sysVars, mapVars, camera, cameraAngle, swingCounter,
                   playerPos, resolved, readIdx, moveKeys, mousePositionDelta, matModelview,
                   printed, colVars, meshVars>>

\* PollInputEvents, lines 572-579: the copies of lines 575-576 and the call of
\* glfwPollEvents.
PollInputEvents ==
    /\ pc = "poll"
    /\ previousKeyState' = currentKeyState
    /\ previousMouseState' = currentMouseState
    /\ polls' = polls + 1
    /\ delivered' = 0
    /\ pc' = "glfwPollEvents"
    /\ UNCHANGED <<currentKeyState, currentMouseState, shouldClose, keysDown, wild, pressPolls,
                   frame, timeVars, sysVars, mapVars, camera, cameraAngle, swingCounter,
                   playerPos, resolved, readIdx, moveKeys, mousePositionDelta, matModelview,
                   rendered, printed, colVars, meshVars>>

\* glfwPollEvents, line 579, delivers one more event.
DeliverEvent ==
    /\ pc = "glfwPollEvents"
    /\ delivered < MaxEvents
    /\ \E e \in Events(keysDown) :
       \E s \in {Deliver([previousKeyState |-> previousKeyState,
                           currentKeyState |-> currentKeyState,
                           previousMouseState |-> previousMouseState,
                           currentMouseState |-> currentMouseState,
                           shouldClose |-> shouldClose,
                           keysDown |-> keysDown,
                           wild |-> wild], e)} :
            /\ previousKeyState' = s.previousKeyState
            /\ currentKeyState' = s.currentKeyState
            /\ previousMouseState' = s.previousMouseState
            /\ currentMouseState' = s.currentMouseState
            /\ shouldClose' = s.shouldClose
            /\ keysDown' = s.keysDown
            /\ wild' = s.wild
            /\ pressPolls' = PressPollsAfter(pressPolls, frame, e)
    /\ delivered' = delivered + 1
    /\ UNCHANGED <<pc, frame, polls, timeVars, sysVars, mapVars, camera, cameraAngle,
                   swingCounter, playerPos, resolved, readIdx, moveKeys, mousePositionDelta,
                   matModelview, rendered, printed, colVars, meshVars>>

\* glfwPollEvents has no more events, and PollInputEvents returns (line 580).
PollReturn ==
    /\ pc = "glfwPollEvents"
    /\ pc' = NextStep("poll")
    /\ UNCHANGED <<inputVars, timeVars, sysVars, mapVars, camera, cameraAngle, swingCounter,
                   playerPos, resolved, readIdx, moveKeys, mousePositionDelta, matModelview,
                   rendered, printed, colVars, meshVars>>

\* Line 351, SyncFrame taken as one step, and the end of the iteration: its locals
\* go out of scope.
SyncStep ==
    /\ pc = "sync"
    /\ pc' = NextStep("sync")
    /\ frame' = frame + 1
    /\ playerPos' = NoPos
    /\ resolved' = "none"
    /\ readIdx' = {}
    /\ moveKeys' = NoKeys
    /\ mousePositionDelta' = 0
    /\ UNCHANGED <<previousKeyState, currentKeyState, previousMouseState, currentMouseState,
                   shouldClose, keysDown, wild, pressPolls, polls, delivered, timeVars, sysVars,
                   mapVars,
                   camera, cameraAngle, swingCounter, matModelview, rendered, printed,
                   colVars, meshVars>>

LoopNext ==
    \/ LoopTop \/ UpdateStep \/ DrawStep
    \/ PollInputEvents \/ DeliverEvent \/ PollReturn
    \/ SyncStep

SpecLoop == LoopInit /\ [][LoopNext]_vars

\* The step of the iteration that ends with this transition, if one does: the poll
\* ends when PollInputEvents returns.
Ends(step) == pc' /= pc /\ pc = (IF step = "poll" THEN "glfwPollEvents" ELSE step)

\* The transition keeps the iteration's steps in this order: the first follows the
\* loop's condition, each next one follows the one before, the loop's condition
\* follows the last.
StepsInOrder(order) ==
    /\ (pc = "top" /\ pc' \notin {"top", "exited"}) => pc' = order[1]
    /\ \A i \in DOMAIN order :
          Ends(order[i]) => pc' = (IF i = Len(order) THEN "top" ELSE order[i + 1])

\* C21, as claimed: every iteration of the main loop performs, once each and in
\* this order, the input poll, the camera and collision update, the draw and the
\* frame pacing wait; when the update of an iteration has run, the first included,
\* that iteration's poll has run.
C21_PollUpdateDrawWait ==
    [][/\ StepsInOrder(<<"poll", "update", "draw", "sync">>)
       /\ (Ends("update") => polls' = frame')]_vars

\* C21, amended: every iteration of the main loop performs, once each and in this
\* order, the camera and collision update, the draw, the input poll and the frame
\* pacing wait; when the update of an iteration has run, the polls of the
\* iterations before it have run and no other: none before the first update.
C21_UpdateDrawPollWait ==
    [][/\ StepsInOrder(<<"update", "draw", "poll", "sync">>)
       /\ (Ends("update") => polls' = frame' - 1)]_vars

\* The second iteration's update has run and has found the space key pressed, by
\* the event the first iteration's poll delivered, the only poll so far.
C21_Witness ==
    /\ pc = "draw"
    /\ frame = 2
    /\ polls = 1
    /\ printed = {2}

\* The update of iteration g has run.
UpdateRan(g) == g < frame \/ (g = frame /\ pc \in {"draw", "poll", "glfwPollEvents", "sync"})

\* C24: the previous key and mouse button state arrays are overwritten with the
\* current ones once per frame, in PollInputEvents, before the events are
\* delivered; and for a press of a key (the space key, which the update asks for)
\* whose release comes in a later poll, IsKeyPressed is true in the update of
\* exactly one frame, the first after the press, whatever repeats follow.
C24_PressedInExactlyOneFrame ==
    /\ [][pc = "poll" /\ pc' /= pc =>
            /\ previousKeyState' = currentKeyState
            /\ previousMouseState' = currentMouseState
            /\ polls' = frame]_vars
    /\ [](printed = { f + 1 : f \in { g \in pressPolls : UpdateRan(g + 1) } })

\* C26: once the close flag is set, by a press of the escape key delivered in a
\* poll or by a request to close the window, no update and no draw runs: the
\* loop's next test of its condition ends it; and a press of the escape key is
\* never stored in the key state array.
C26_CloseRequestEndsTheLoop ==
    /\ [](shouldClose => pc \in {"glfwPollEvents", "sync", "top", "exited"})
    /\ [][shouldClose /\ pc = "top" /\ pc' /= pc => pc' = "exited"]_vars
    /\ [](currentKeyState[GLFW_KEY_ESCAPE] /= GLFW_PRESS)

\* The loop has ended on a press of the escape key, which left the array's entry
\* as it was; the repeat that followed it in the same poll was stored.
C26_Witness ==
    /\ pc = "exited"
    /\ KeyOf(GLFW_KEY_ESCAPE) \in keysDown
    /\ currentKeyState[GLFW_KEY_ESCAPE] = GLFW_REPEAT
    /\ rendered.drawn

\* C29: every key event and every mouse button event stores inside the 512 entries
\* of the key state array and the 3 entries of the mouse button state array,
\* whatever code the library delivers, the unknown key's -1 and the buttons 3 to 7
\* included.
C29_StoresInsideTheArrays == wild = {}

====
